---- MODULE Spec2Model ----
(***************************************************************************)
(* A model of capybot's decision-and-execution core:                       *)
(*   - Arbitrage.evaluate        (src/src/strategies/arbitrage.ts)         *)
(*   - RAMMPool.prepareCoinForPaymentCommon / createSwapTransaction        *)
(*                               (src/src/dexs/ramm-sui/ramm-sui.ts)       *)
(*   - CetusPool.createSwapTransaction (src/src/dexs/cetus/cetus.ts)       *)
(*   - Capybot.loop, checkSplitTokens, executeTransactionBlock             *)
(*                               (src/src/capybot.ts, lines 71-337)        *)
(* The specifications share the variables: SpecArb drives the strategy,    *)
(* SpecSel the payment selector, Spec and SpecLong the execution loop,     *)
(* SpecBot the registration of pools, data sources and the strategy,       *)
(* SpecPool the construction of pools, SpecTwin two strategies that differ *)
(* in their lower limit.                                                   *)
(***************************************************************************)
EXTENDS Integers, Sequences, FiniteSets, TLC

VARIABLES
    \* ---- Arbitrage (one strategy instance)
    poolChain,        \* this.poolChain: the array evaluate walks (and reverses in place)
    declaredChain,    \* the chain as it was passed to the constructor
    lowerLimit,       \* this.lowerLimit
    defaultAmount,    \* this.defaultAmount
    latestRate,       \* this.latestRate: poolUuid -> number | undefined
    latestFee,        \* this.latestFee:  poolUuid -> number | undefined
    ret,              \* the last evaluate call: its argument, logged products, returned orders
    \* ---- Payment selector
    sel,              \* the last prepareCoinForPaymentCommon call: its inputs and its outcome
    \* ---- Capybot.loop
    pc,               \* the loop's position (the await it is suspended at)
    now,              \* Date.now(), in ms since the loop was started
    duration,         \* loop(duration, ., .)
    delay,            \* loop's local `delay`
    baseDelay,        \* loop's local `baseDelay`
    maxDelay,         \* loop(., ., maxDelay)
    coinTypes,        \* this.coinTypes
    srcIdx,           \* position of `uri` in the iteration over this.dataSources
    stratIdx,         \* position of `strategy` in this.strategies[uri]
    ordersLeft,       \* orders of tradeOrders not yet visited by the inner for loop
    orderNo,          \* number of orders of tradeOrders visited so far
    txb,              \* the TransactionBlock under construction / being submitted: its
                      \* commands, each with the order and the pool it was built for
    inFlight,         \* submissions started and not yet completed
    imbalance,        \* this.imbalance
    lastImbalanceCheckTime, \* this.lastImbalanceCheckTime
    batch,            \* the current strategy evaluation: the orders visited, what became
                      \* of each, and what executeTransactionBlock returned
    round,            \* the current iteration of mainloop: the sources a transaction was
                      \* submitted for, and the source whose poll yielded no data
    exitCause,        \* why loop() ended: "returned", or the call whose error it rejected with
    \* ---- Capybot: the routing tables
    dataSources,      \* the keys of this.dataSources
    pools,            \* the keys of this.pools
    poolKeypairs,     \* the keys of this.poolKeypairs
    rebalanceKeypairs, \* this.rebalanceKeypairs: the pools whose keypair was added to it
    strategies,       \* this.strategies: uri -> the strategies pushed under it, in order
    botCall,          \* the last addPool / addDataSource / addStrategy call and how it ended
    \* ---- Pool
    gate,             \* the imbalance gate of a bot with two RAMM pools: the snapshot,
                      \* its time, the clock, the last order and what the gate decided
    loop2,            \* the second variant of Capybot.loop: its position, clock, the
                      \* orders left of the current evaluation, the transactions in
                      \* its block, and what it did since a poll last gave no data
    twin,             \* a second Arbitrage instance, given the same observations as the
                      \* first: its poolChain, lowerLimit, latestRate, latestFee, and
                      \* its last evaluate call
    made              \* two pools: the arguments of their constructors, the pools once
                      \* constructed, and the last data point got from one of them

arbVars == <<poolChain, declaredChain, lowerLimit, defaultAmount, latestRate, latestFee, ret>>
selVars == <<sel>>
loopVars == <<pc, now, duration, delay, baseDelay, maxDelay, coinTypes, srcIdx, stratIdx,
              ordersLeft, orderNo, txb, batch, inFlight, imbalance, lastImbalanceCheckTime,
              round, exitCause>>
botVars == <<dataSources, pools, poolKeypairs, rebalanceKeypairs, strategies, botCall>>
poolVars == <<made>>
twinVars == <<twin>>
loop2Vars == <<loop2>>
gateVars == <<gate>>
vars == <<arbVars, selVars, loopVars, botVars, poolVars, twinVars, loop2Vars, gateVars>>

(***************************************************************************)
(* Bounds of the model.                                                    *)
(***************************************************************************)
MaxHops == 2          \* longest pool chain
MaxCoins == 3         \* longest list of owned coins returned by getCoins
MaxOrders == 2        \* most orders one evaluate call returns to the loop
MaxPending == 1       \* most un-awaited gas-split submissions in flight
MaxTime == 30000      \* the clock saturates here
Tick == 30000         \* the clock's resolution: an await takes no time or one tick
MaxRegistrations == 2 \* longest list of strategies under one data source

(***************************************************************************)
(* JavaScript numbers.  A value is a non-negative rational n/d in lowest   *)
(* terms, +Infinity, NaN or undefined.  Prices are >= 0 and fees are in    *)
(* [0,1), so no negative value arises.                                     *)
(***************************************************************************)
RECURSIVE GCD(_, _)
GCD(a, b) == IF b = 0 THEN a ELSE GCD(b, a % b)

Num(n, d) == LET g == GCD(n, d) IN [k |-> "num", n |-> n \div g, d |-> d \div g]
Inf == [k |-> "inf", n |-> 1, d |-> 0]
NaN == [k |-> "nan", n |-> 0, d |-> 0]
Undef == [k |-> "undef", n |-> 0, d |-> 0]
One == Num(1, 1)

\* a * b
Mul(a, b) ==
    IF a.k \in {"nan", "undef"} \/ b.k \in {"nan", "undef"} THEN NaN
    ELSE IF a.k = "inf" \/ b.k = "inf"
         THEN IF (a.k = "num" /\ a.n = 0) \/ (b.k = "num" /\ b.n = 0) THEN NaN ELSE Inf
    ELSE LET g1 == GCD(a.n, b.d)
             g2 == GCD(b.n, a.d)
         IN  Num((a.n \div g1) * (b.n \div g2), (a.d \div g2) * (b.d \div g1))

\* 1 / a
Inv(a) ==
    IF a.k \in {"nan", "undef"} THEN NaN
    ELSE IF a.k = "inf" THEN Num(0, 1)
    ELSE IF a.n = 0 THEN Inf
    ELSE Num(a.d, a.n)

\* 1 - a, for a in [0,1]
OneMinus(a) ==
    IF a.k # "num" THEN NaN ELSE Num(a.d - a.n, a.d)

\* Gt written as !(a <= b): true when a comparand is NaN.
Gt_NotLessOrEqual(a, b) ==
    IF a.k \in {"nan", "undef"} \/ b.k \in {"nan", "undef"} THEN TRUE
    ELSE IF a.k = "inf" THEN b.k # "inf"
    ELSE IF b.k = "inf" THEN FALSE
    ELSE a.n * b.d > b.n * a.d

\* Gt with its operands exchanged.
Gt_Reversed(a, b) ==
    IF a.k \in {"nan", "undef"} \/ b.k \in {"nan", "undef"} THEN FALSE
    ELSE IF b.k = "inf" THEN a.k # "inf"
    ELSE IF a.k = "inf" THEN FALSE
    ELSE b.n * a.d > a.n * b.d

\* a > b
Gt(a, b) ==
    IF a.k \in {"nan", "undef"} \/ b.k \in {"nan", "undef"} THEN FALSE
    ELSE IF a.k = "inf" THEN b.k # "inf"
    ELSE IF b.k = "inf" THEN FALSE
    ELSE a.n * b.d > b.n * a.d

RECURSIVE Pow10(_)
Pow10(e) == IF e = 0 THEN 1 ELSE 10 * Pow10(e - 1)

(***************************************************************************)
(* Coins (src/src/coins.ts).                                               *)
(***************************************************************************)
SUI == [symbol |-> "SUI", decimals |-> 9,
        type |-> "0x0000000000000000000000000000000000000000000000000000000000000002::sui::SUI"]
USDT == [symbol |-> "USDT", decimals |-> 6,
         type |-> "0xc060006111016b8a020ad5b33834984a437aaa7d3c74c18e09a95d48aceab08c::coin::COIN"]
USDC == [symbol |-> "USDC", decimals |-> 6,
         type |-> "0x5d4b302506645c37ff133b98c4b50a5ae14841659738d6d733d59d0d217a93bf::coin::COIN"]
WBTC == [symbol |-> "WBTC", decimals |-> 8,
         type |-> "0x27792d9fed7f9844eb4839566001bb6f6cb4804f66aa2da6fe1ee242d896881::coin::COIN"]
Assets == <<SUI, USDC, USDT, WBTC>>

\* AssetTypeToSymbol.get(type): the symbol, or "undefined"
AssetTypeToSymbol(type) ==
    IF \E i \in 1..Len(Assets) : Assets[i].type = type
    THEN (CHOOSE a \in {Assets[i] : i \in 1..Len(Assets)} : a.type = type).symbol
    ELSE "undefined"

(***************************************************************************)
(* Arbitrage                                                               *)
(***************************************************************************)
PoolUuid(i) == <<"pool", i>>

\* The i-th hop of a chain of n hops over the ring of assets: with every
\* a2b TRUE the chain composes into a cycle.
Hop(i, n, a2b) ==
    [poolUuid |-> PoolUuid(i),
     coinA |-> Assets[((i - 1) % Len(Assets)) + 1],
     coinB |-> Assets[((IF i = n THEN 0 ELSE i) % Len(Assets)) + 1],
     a2b |-> a2b]

Chains ==
    UNION {{[i \in 1..n |-> Hop(i, n, dirs[i])] : dirs \in [1..n -> BOOLEAN]} : n \in 1..MaxHops}

ChainPools == {PoolUuid(i) : i \in 1..MaxHops}

\* The (price, fee) pairs a pool may quote.
Quotes ==
    {[price |-> Num(0, 1), fee |-> Num(0, 1)], [price |-> Num(1, 2), fee |-> Num(1, 10)],
     [price |-> Num(2, 1), fee |-> Num(1, 10)], [price |-> Num(2, 1), fee |-> Num(0, 1)]}
LimitSet == {Num(1, 2), Num(11, 10)}
AmountSet == {Num(1, 20)}

\* Observations: prices of the chain's pools and of a pool outside the chain, and one
\* data point that is not a price.
DataPoints ==
    {[type |-> "Price", source_uri |-> src, price |-> q.price, fee |-> q.fee] :
        src \in ChainPools \cup {PoolUuid(0)}, q \in Quotes}
    \cup {[type |-> "Other", source_uri |-> PoolUuid(1), price |-> Num(2, 1),
           fee |-> Num(0, 1)]}

Reverse(s) == [i \in 1..Len(s) |-> s[Len(s) + 1 - i]]

\* getLatestRate(pool, a2b)
getLatestRate(rates, pool, a2b) ==
    IF a2b THEN rates[pool] ELSE Inv(rates[pool])

\* The loop over this.poolChain that multiplies up arbitrage and arbitrageReverse;
\* complete is FALSE when it returned [] at a hop whose rate == undefined.
RECURSIVE Products(_, _, _, _, _)
Products(chain, i, rates, fees, acc) ==
    IF i > Len(chain) THEN [complete |-> TRUE, arbitrage |-> acc.arbitrage,
                            arbitrageReverse |-> acc.arbitrageReverse]
    ELSE LET pool == chain[i]
             rate == getLatestRate(rates, pool.poolUuid, pool.a2b)
         IN  IF rate = Undef
             THEN [complete |-> FALSE, arbitrage |-> acc.arbitrage,
                   arbitrageReverse |-> acc.arbitrageReverse]
             ELSE Products(chain, i + 1, rates, fees,
                    [arbitrage |-> Mul(acc.arbitrage,
                                       Mul(OneMinus(fees[pool.poolUuid]), rate)),
                     arbitrageReverse |-> Mul(acc.arbitrageReverse,
                                       Mul(OneMinus(fees[pool.poolUuid]), Inv(rate)))])

\* ForwardOrder naming the pool by a key that is not its uuid.
ForwardOrder_Unlisted(pool, rates, amountIn) ==
    [poolUuid |-> PoolUuid(0),
     assetIn |-> IF pool.a2b THEN pool.coinA.type ELSE pool.coinB.type,
     amountIn |-> Mul(amountIn, Num(Pow10(IF pool.a2b THEN pool.coinA.decimals
                                                       ELSE pool.coinB.decimals), 1)),
     estimatedPrice |-> getLatestRate(rates, pool.poolUuid, pool.a2b),
     a2b |-> pool.a2b]

\* One order of the forward branch (arbitrage.ts lines 79-92).
ForwardOrder(pool, rates, amountIn) ==
    [poolUuid |-> pool.poolUuid,
     assetIn |-> IF pool.a2b THEN pool.coinA.type ELSE pool.coinB.type,
     amountIn |-> Mul(amountIn, Num(Pow10(IF pool.a2b THEN pool.coinA.decimals
                                                       ELSE pool.coinB.decimals), 1)),
     estimatedPrice |-> getLatestRate(rates, pool.poolUuid, pool.a2b),
     a2b |-> pool.a2b]

\* One order of the reverse branch (arbitrage.ts lines 103-117).
ReverseOrder(pool, rates, amountIn) ==
    [poolUuid |-> pool.poolUuid,
     assetIn |-> IF ~pool.a2b THEN pool.coinA.type ELSE pool.coinB.type,
     amountIn |-> Mul(amountIn, Num(Pow10(IF ~pool.a2b THEN pool.coinA.decimals
                                                        ELSE pool.coinB.decimals), 1)),
     estimatedPrice |-> getLatestRate(rates, pool.poolUuid, ~pool.a2b),
     a2b |-> ~pool.a2b]

\* ForwardOrders with the walk stopping one hop early.
RECURSIVE ForwardOrders_DropLast(_, _, _, _)
ForwardOrders_DropLast(chain, i, rates, amountIn) ==
    IF i >= Len(chain) THEN <<>>
    ELSE <<ForwardOrder(chain[i], rates, amountIn)>> \o
         ForwardOrders_DropLast(chain, i + 1, rates,
                       Mul(amountIn, getLatestRate(rates, chain[i].poolUuid, chain[i].a2b)))

\* for (const pool of this.poolChain) { ... orders.push(..); amountIn = amountIn * latestRate }
RECURSIVE ForwardOrders(_, _, _, _)
ForwardOrders(chain, i, rates, amountIn) ==
    IF i > Len(chain) THEN <<>>
    ELSE <<ForwardOrder(chain[i], rates, amountIn)>> \o
         ForwardOrders(chain, i + 1, rates,
                       Mul(amountIn, getLatestRate(rates, chain[i].poolUuid, chain[i].a2b)))

\* for (const pool of this.poolChain.reverse()) { ... }: chain is the array after reverse()
RECURSIVE ReverseOrders(_, _, _, _)
ReverseOrders(chain, i, rates, amountIn) ==
    IF i > Len(chain) THEN <<>>
    ELSE <<ReverseOrder(chain[i], rates, amountIn)>> \o
         ReverseOrders(chain, i + 1, rates,
                       Mul(amountIn, getLatestRate(rates, chain[i].poolUuid, ~chain[i].a2b)))

\* this.poolChain after `this.poolChain.reverse()`: Array.prototype.reverse reverses
\* the array in place (and returns it), so the strategy's own chain is left reversed
\* by every evaluation that takes the reverse branch.
ReversedInPlace(chain) == Reverse(chain)

NoCall == [called |-> FALSE]

\* Updated with the value stored under every key.
Updated_EveryKey(cache, uri, value) == [u \in DOMAIN cache |-> value]

\* Updated with every other entry dropped.
Updated_Evicts(cache, uri, value) == [u \in DOMAIN cache |-> IF u = uri THEN value ELSE Undef]

\* this.latestRate[data.source_uri] = data.price, and the same for latestFee
Updated(cache, uri, value) == [cache EXCEPT ![uri] = value]

\* Evaluated with the reverse product compared first.
Evaluated_ReverseFirst(chain, rates0, fees0, limit, amount, data) ==
    IF data.type # "Price" \/ ~(\E i \in 1..Len(chain) : chain[i].poolUuid = data.source_uri)
    THEN [poolChain |-> chain, latestRate |-> rates0, latestFee |-> fees0,
          ret |-> [called |-> TRUE, data |-> data, accepted |-> FALSE, logged |-> FALSE,
                   branch |-> "ignored", orders |-> <<>>]]
    ELSE LET rates == Updated(rates0, data.source_uri, data.price)
             fees == Updated(fees0, data.source_uri, data.fee)
             p == Products(chain, 1, rates, fees,
                           [arbitrage |-> One, arbitrageReverse |-> One])
         IN  IF ~p.complete
             THEN [poolChain |-> chain, latestRate |-> rates, latestFee |-> fees,
                   ret |-> [called |-> TRUE, data |-> data, accepted |-> TRUE,
                            logged |-> FALSE, branch |-> "incomplete", orders |-> <<>>]]
             ELSE IF Gt(p.arbitrageReverse, limit)
             THEN [poolChain |-> ReversedInPlace(chain), latestRate |-> rates,
                   latestFee |-> fees,
                   ret |-> [called |-> TRUE, data |-> data, accepted |-> TRUE,
                            logged |-> TRUE, arbitrage |-> p.arbitrage,
                            reverse |-> p.arbitrageReverse, branch |-> "reverse",
                            orders |-> ReverseOrders(Reverse(chain), 1, rates, amount)]]
             ELSE IF Gt(p.arbitrage, limit)
             THEN [poolChain |-> chain, latestRate |-> rates, latestFee |-> fees,
                   ret |-> [called |-> TRUE, data |-> data, accepted |-> TRUE,
                            logged |-> TRUE, arbitrage |-> p.arbitrage,
                            reverse |-> p.arbitrageReverse, branch |-> "forward",
                            orders |-> ForwardOrders(chain, 1, rates, amount)]]
             ELSE [poolChain |-> chain, latestRate |-> rates, latestFee |-> fees,
                   ret |-> [called |-> TRUE, data |-> data, accepted |-> TRUE,
                            logged |-> TRUE, arbitrage |-> p.arbitrage,
                            reverse |-> p.arbitrageReverse, branch |-> "none",
                            orders |-> <<>>]]

\* What evaluate(data) does to a strategy whose fields are chain (this.poolChain), rates
\* (this.latestRate), fees (this.latestFee), limit (this.lowerLimit) and amount
\* (this.defaultAmount): the fields after the call, and what the call returned.
Evaluated(chain, rates0, fees0, limit, amount, data) ==
    IF data.type # "Price" \/ ~(\E i \in 1..Len(chain) : chain[i].poolUuid = data.source_uri)
    THEN [poolChain |-> chain, latestRate |-> rates0, latestFee |-> fees0,
          ret |-> [called |-> TRUE, data |-> data, accepted |-> FALSE, logged |-> FALSE,
                   branch |-> "ignored", orders |-> <<>>]]
    ELSE LET rates == Updated(rates0, data.source_uri, data.price)
             fees == Updated(fees0, data.source_uri, data.fee)
             p == Products(chain, 1, rates, fees,
                           [arbitrage |-> One, arbitrageReverse |-> One])
         IN  IF ~p.complete
             THEN [poolChain |-> chain, latestRate |-> rates, latestFee |-> fees,
                   ret |-> [called |-> TRUE, data |-> data, accepted |-> TRUE,
                            logged |-> FALSE, branch |-> "incomplete", orders |-> <<>>]]
             ELSE IF Gt(p.arbitrage, limit)
             THEN [poolChain |-> chain, latestRate |-> rates, latestFee |-> fees,
                   ret |-> [called |-> TRUE, data |-> data, accepted |-> TRUE,
                            logged |-> TRUE, arbitrage |-> p.arbitrage,
                            reverse |-> p.arbitrageReverse, branch |-> "forward",
                            orders |-> ForwardOrders(chain, 1, rates, amount)]]
             ELSE IF Gt(p.arbitrageReverse, limit)
             THEN [poolChain |-> ReversedInPlace(chain), latestRate |-> rates,
                   latestFee |-> fees,
                   ret |-> [called |-> TRUE, data |-> data, accepted |-> TRUE,
                            logged |-> TRUE, arbitrage |-> p.arbitrage,
                            reverse |-> p.arbitrageReverse, branch |-> "reverse",
                            orders |-> ReverseOrders(Reverse(chain), 1, rates, amount)]]
             ELSE [poolChain |-> chain, latestRate |-> rates, latestFee |-> fees,
                   ret |-> [called |-> TRUE, data |-> data, accepted |-> TRUE,
                            logged |-> TRUE, arbitrage |-> p.arbitrage,
                            reverse |-> p.arbitrageReverse, branch |-> "none",
                            orders |-> <<>>]]

\* evaluate(data) on the strategy instance
evaluate(data) ==
    LET e == Evaluated(poolChain, latestRate, latestFee, lowerLimit, defaultAmount, data)
    IN  /\ poolChain' = e.poolChain
        /\ latestRate' = e.latestRate
        /\ latestFee' = e.latestFee
        /\ ret' = e.ret

\* subscribes_to()
subscribes_to == [i \in 1..Len(poolChain) |-> poolChain[i].poolUuid]

(***************************************************************************)
(* Payment selector: RAMMPool.prepareCoinForPaymentCommon                  *)
(***************************************************************************)
SUI_ADDRESS_SHORT == "0x2::SUI::sui"
SUI_ADDRESS_LONG == "0x0000000000000000000000000000000000000000000000000000000000000002::sui::SUI"

\* Commands of a TransactionBlock.  coin 0 is txb.gas; an owned coin is named by
\* its coinObjectId, which is its position in the list getCoins returned.
SplitCoins(coin, amount) ==
    [kind |-> "SplitCoins", coin |-> coin, amount |-> amount, sources |-> <<>>]
MergeCoins(destination, sources) ==
    [kind |-> "MergeCoins", coin |-> destination, amount |-> 0, sources |-> sources]
MoveCall(amount) ==
    [kind |-> "MoveCall", coin |-> 0, amount |-> amount, sources |-> <<>>]

\* find with a coin taken only when its balance exceeds the quantity.
find_StrictlyMore(baseCoins, quantity) ==
    IF \E i \in 1..Len(baseCoins) : baseCoins[i].balance > quantity
    THEN CHOOSE i \in 1..Len(baseCoins) :
            /\ baseCoins[i].balance > quantity
            /\ \A j \in 1..(i - 1) : baseCoins[j].balance <= quantity
    ELSE 0

\* baseCoins.find((c) => balance(c) >= quantityWithMultiplier): the position of the
\* first such coin, or 0
find(baseCoins, quantity) ==
    IF \E i \in 1..Len(baseCoins) : baseCoins[i].balance >= quantity
    THEN CHOOSE i \in 1..Len(baseCoins) :
            /\ baseCoins[i].balance >= quantity
            /\ \A j \in 1..(i - 1) : baseCoins[j].balance < quantity
    ELSE 0

RECURSIVE Insert(_, _)
Insert(s, c) ==
    IF s = <<>> THEN <<c>>
    ELSE IF Head(s).balance <= c.balance THEN <<Head(s)>> \o Insert(Tail(s), c)
    ELSE <<c>> \o s

\* baseCoins.sort((a, b) => balance(a) - balance(b)): ascending and stable
RECURSIVE sort(_)
sort(s) ==
    IF s = <<>> THEN <<>>
    ELSE Insert(sort(SubSeq(s, 1, Len(s) - 1)), s[Len(s)])

\* Accumulate with the break taken on sum > quantity instead of sum >= quantity.
RECURSIVE Accumulate_StrictBreak(_, _, _, _)
Accumulate_StrictBreak(sortedBaseCoins, i, sum, quantity) ==
    IF i > Len(sortedBaseCoins) THEN [sum |-> sum, n |-> i - 1]
    ELSE LET s2 == sum + sortedBaseCoins[i].balance
         IN  IF s2 > quantity THEN [sum |-> s2, n |-> i]
             ELSE Accumulate_StrictBreak(sortedBaseCoins, i + 1, s2, quantity)

\* Accumulate with the sum taken before the coin is added to it.
RECURSIVE Accumulate_SumLags(_, _, _, _)
Accumulate_SumLags(sortedBaseCoins, i, sum, quantity) ==
    IF i > Len(sortedBaseCoins) THEN [sum |-> sum, n |-> i - 1]
    ELSE LET s2 == sum + sortedBaseCoins[i].balance
         IN  IF s2 >= quantity THEN [sum |-> s2, n |-> i]
             ELSE IF i = Len(sortedBaseCoins) THEN [sum |-> sum, n |-> i]
             ELSE Accumulate_SumLags(sortedBaseCoins, i + 1, s2, quantity)

\* for (const coin of sortedBaseCoins) { sum += ..; necessaryCoins.push(coin);
\*   if (sum >= quantityWithMultiplier) break }
\* n is the number of coins pushed to necessaryCoins.
RECURSIVE Accumulate(_, _, _, _)
Accumulate(sortedBaseCoins, i, sum, quantity) ==
    IF i > Len(sortedBaseCoins) THEN [sum |-> sum, n |-> i - 1]
    ELSE LET s2 == sum + sortedBaseCoins[i].balance
         IN  IF s2 >= quantity THEN [sum |-> s2, n |-> i]
             ELSE Accumulate(sortedBaseCoins, i + 1, s2, quantity)

NoError == [kind |-> "none", needed |-> 0, found |-> 0]

\* The gas fast path applies to these asset types.
IsGasAsset(asset) == asset = SUI_ADDRESS_LONG \/ asset = SUI_ADDRESS_SHORT

\* SingleCoinPath without the shortcut: the coins are accumulated all the same.
SingleCoinPath_Accumulates(block, baseCoins, quantity) ==
    LET sortedBaseCoins == sort(baseCoins)
        acc == Accumulate(sortedBaseCoins, 1, 0, quantity)
        necessaryCoins == SubSeq(sortedBaseCoins, 1, acc.n)
    IN  [outcome |-> "ok", path |-> "accumulate", error |-> NoError,
         merged |-> [i \in 1..Len(necessaryCoins) |-> necessaryCoins[i].coinObjectId],
         txb |-> block \o
             <<MergeCoins(necessaryCoins[1].coinObjectId,
                          [i \in 1..(Len(necessaryCoins) - 1) |->
                              necessaryCoins[i + 1].coinObjectId]),
               SplitCoins(necessaryCoins[1].coinObjectId, quantity)>>]

\* The path taken when some owned coin covers the quantity on its own.
SingleCoinPath(block, baseCoins, quantity) ==
    [outcome |-> "ok", path |-> "single", error |-> NoError, merged |-> <<>>,
     txb |-> Append(block, SplitCoins(baseCoins[find(baseCoins, quantity)].coinObjectId,
                                      quantity))]

\* The path taken when no owned coin covers the quantity on its own.
AccumulatePath(block, baseCoins, quantity) ==
    LET sortedBaseCoins == sort(baseCoins)
        acc == Accumulate(sortedBaseCoins, 1, 0, quantity)
        necessaryCoins == SubSeq(sortedBaseCoins, 1, acc.n)
    IN  IF acc.sum < quantity
        THEN [outcome |-> "throw", path |-> "accumulate", merged |-> <<>>, txb |-> block,
              error |-> [kind |-> "InsufficientBalance", needed |-> quantity,
                         found |-> acc.sum]]
        ELSE IF necessaryCoins = <<>>
        \* necessaryCoins[0] is undefined: baseCoin.coinObjectId is a TypeError
        THEN [outcome |-> "throw", path |-> "accumulate", merged |-> <<>>, txb |-> block,
              error |-> [kind |-> "TypeError", needed |-> 0, found |-> 0]]
        ELSE LET baseCoin == necessaryCoins[1]
                 otherCoins == Tail(necessaryCoins)
             IN  [outcome |-> "ok", path |-> "accumulate", error |-> NoError,
                  merged |-> [i \in 1..Len(necessaryCoins) |-> necessaryCoins[i].coinObjectId],
                  txb |-> block \o
                      <<MergeCoins(baseCoin.coinObjectId,
                                   [i \in 1..Len(otherCoins) |-> otherCoins[i].coinObjectId]),
                        SplitCoins(baseCoin.coinObjectId, quantity)>>]

\* prepareCoinForPaymentCommon(txb, asset, quantityWithMultiplier), with baseCoins the
\* answer of suiClient.getCoins
prepareCoinForPaymentCommon(block, asset, quantity, baseCoins) ==
    IF IsGasAsset(asset)
    THEN [outcome |-> "ok", path |-> "gas", error |-> NoError, merged |-> <<>>,
          txb |-> Append(block, SplitCoins(0, quantity))]
    ELSE IF find(baseCoins, quantity) # 0
    THEN SingleCoinPath(block, baseCoins, quantity)
    ELSE AccumulatePath(block, baseCoins, quantity)

\* RAMMcreateSwapTransaction with the selector's error thrown on to the caller.
RAMMcreateSwapTransaction_Rethrows(coinA, coinB, block, params, baseCoins) ==
    IF params.amountIn = 0
    THEN [outcome |-> "throw", txb |-> block, fresh |-> FALSE, path |-> "none",
          error |-> [kind |-> "ZeroAmount", needed |-> 0, found |-> 0]]
    ELSE LET assetIn == IF params.a2b THEN coinA.type ELSE coinB.type
             p == prepareCoinForPaymentCommon(block, assetIn, params.amountIn, baseCoins)
         IN  IF p.outcome = "ok"
             THEN [outcome |-> "ok", txb |-> Append(p.txb, MoveCall(params.amountIn)),
                   fresh |-> FALSE, path |-> p.path, error |-> NoError]
             ELSE [outcome |-> "throw", txb |-> block, fresh |-> FALSE, path |-> p.path,
                   error |-> p.error]

\* RAMMPool.createSwapTransaction(transactionBlock, params)
\* The result tells what was returned or thrown, whether the block returned is a
\* new object, the selector's path and the error that was caught and logged.
RAMMcreateSwapTransaction(coinA, coinB, block, params, baseCoins) ==
    IF params.amountIn = 0
    THEN [outcome |-> "throw", txb |-> block, fresh |-> FALSE, path |-> "none",
          error |-> [kind |-> "ZeroAmount", needed |-> 0, found |-> 0]]
    ELSE LET assetIn == IF params.a2b THEN coinA.type ELSE coinB.type
             p == prepareCoinForPaymentCommon(block, assetIn, params.amountIn, baseCoins)
         IN  IF p.outcome = "ok"
             THEN [outcome |-> "ok", txb |-> Append(p.txb, MoveCall(params.amountIn)),
                   fresh |-> FALSE, path |-> p.path, error |-> NoError]
             ELSE [outcome |-> "ok", txb |-> block, fresh |-> FALSE, path |-> p.path,
                   error |-> p.error]                  \* catch (e) { logger.error(e) }

\* CetuscreateSwapTransaction with the swap added to the block that was passed in.
CetuscreateSwapTransaction_Appends(block, params, totalBalance) ==
    IF params.amountIn > 0 /\ totalBalance >= params.amountIn
    THEN [outcome |-> "ok", txb |-> Append(block, MoveCall(params.amountIn)),
          fresh |-> FALSE, path |-> "cetus", error |-> NoError]
    ELSE [outcome |-> "ok", txb |-> block, fresh |-> FALSE, path |-> "cetus",
          error |-> NoError]

\* CetusPool.createSwapTransaction(transactionBlock, params), with totalBalance the
\* answer of getTotalBalanceByCoinType: the block built by the SDK is a new one.
CetuscreateSwapTransaction(block, params, totalBalance) ==
    IF params.amountIn > 0 /\ totalBalance >= params.amountIn
    THEN [outcome |-> "ok", txb |-> <<MoveCall(params.amountIn)>>, fresh |-> TRUE,
          path |-> "cetus", error |-> NoError]
    ELSE [outcome |-> "ok", txb |-> block, fresh |-> FALSE, path |-> "cetus",
          error |-> NoError]

(***************************************************************************)
(* The ledger's execution of the commands of a block over the owner's      *)
(* coins: bal maps coin ids (0 is the gas coin) to balances, out lists the *)
(* balances of the coins the splits produced.                              *)
(***************************************************************************)
RECURSIVE SumOver(_, _, _)
SumOver(bal, ids, i) ==
    IF i > Len(ids) THEN 0 ELSE bal[ids[i]] + SumOver(bal, ids, i + 1)

RECURSIVE Execute(_, _, _)
Execute(ops, i, st) ==
    IF i > Len(ops) \/ ~st.ok THEN st
    ELSE LET op == ops[i] IN
         IF op.kind = "MergeCoins"
         THEN Execute(ops, i + 1,
                [st EXCEPT !.bal = [c \in DOMAIN st.bal |->
                    IF c = op.coin THEN st.bal[c] + SumOver(st.bal, op.sources, 1)
                    ELSE IF \E j \in 1..Len(op.sources) : op.sources[j] = c THEN 0
                    ELSE st.bal[c]]])
         ELSE IF op.kind = "SplitCoins"
         THEN IF st.bal[op.coin] >= op.amount
              THEN Execute(ops, i + 1,
                     [st EXCEPT !.bal[op.coin] = @ - op.amount,
                                !.out = Append(@, op.amount)])
              ELSE [st EXCEPT !.ok = FALSE]
         ELSE Execute(ops, i + 1, st)

Ledger(baseCoins, gasBalance) ==
    [ok |-> TRUE, out |-> <<>>,
     bal |-> [c \in 0..Len(baseCoins) |-> IF c = 0 THEN gasBalance ELSE baseCoins[c].balance]]

RECURSIVE SumBalances(_)
SumBalances(coins) ==
    IF coins = <<>> THEN 0 ELSE Head(coins).balance + SumBalances(Tail(coins))

BalanceSet == {0, 1, 2, 10, 30, 45, 80}
QuantitySet == {0, 1, 3, 50, 70, 200}
GasBalanceSet == {0, 100}
SelAssets == {SUI.type, USDC.type}

CoinLists(maxLen) ==
    UNION {{[i \in 1..n |-> [coinObjectId |-> i, balance |-> b[i]]] : b \in [1..n -> BalanceSet]}
           : n \in 0..maxLen}

NoResult == [outcome |-> "none", path |-> "none", error |-> NoError, merged |-> <<>>,
             txb |-> <<>>]

\* The inputs of one call of prepareCoinForPaymentCommon: the asset, the quantity,
\* and what the ledger answers (the owner's coins of the asset, the gas coin's balance).
SelInit ==
    \E asset \in SelAssets, quantity \in QuantitySet, baseCoins \in CoinLists(MaxCoins),
       gasBalance \in GasBalanceSet :
       sel = [called |-> FALSE, asset |-> asset, quantity |-> quantity,
              baseCoins |-> baseCoins, gasBalance |-> gasBalance, res |-> NoResult]

\* The call of prepareCoinForPaymentCommon on an empty block.
SelCall ==
    /\ ~sel.called
    /\ sel' = [sel EXCEPT !.called = TRUE,
                          !.res = prepareCoinForPaymentCommon(<<>>, sel.asset, sel.quantity,
                                                              sel.baseCoins)]
    /\ UNCHANGED <<arbVars, loopVars, botVars, poolVars, twinVars, loop2Vars, gateVars>>

(***************************************************************************)
(* Capybot.loop (src/src/capybot.ts, lines 71-170)                         *)
(*                                                                         *)
(* The bot of src/unnamed/part_007: a Cetus pool and a RAMM pool, added in *)
(* this order, both with requiresRebalance or none.  Strategies are the    *)
(* abstract Strategy: what evaluate returns is chosen by the environment.  *)
(***************************************************************************)
Pools ==
    <<[kind |-> "Cetus", coinA |-> USDC, coinB |-> SUI],
      [kind |-> "RAMM", coinA |-> SUI, coinB |-> USDC]>>

\* Object.keys(this.dataSources), in insertion order: addPool adds each pool as a
\* data source under its uri.
NumSources == Len(Pools)

\* this.strategies[uri].length
NumStrategies(i) == IF i = 1 THEN 2 ELSE 1

DelayConfigs == {[delay |-> 1000, maxDelay |-> 50000], [delay |-> 20000, maxDelay |-> 10000]}
DurationSet == {30000}
CoinTypeSets == {{}, {SUI.type, USDC.type}}
AmountInSet == {0, 5}
TotalBalanceSet == {0, 5}
CoinCountSet == {0, 1, 2, 7}

LoopCoinLists ==
    {<<>>, <<[coinObjectId |-> 1, balance |-> 5]>>,
     <<[coinObjectId |-> 1, balance |-> 3], [coinObjectId |-> 2, balance |-> 2]>>}

\* Imbalance ratios in tenths: 12 is the ratio 1.2.
ImbRatioSets ==
    {[SUI |-> 10, USDC |-> 10], [SUI |-> 12, USDC |-> 10], [SUI |-> 10, USDC |-> 13]}

\* The trade orders a strategy may return: any pool of the bot, either direction.
TradeOrders ==
    {[poolUuid |-> i, a2b |-> d, amountIn |-> a,
      assetIn |-> IF d THEN Pools[i].coinA.type ELSE Pools[i].coinB.type] :
        i \in 1..NumSources, d \in BOOLEAN, a \in AmountInSet}

Min(a, b) == IF a < b THEN a ELSE b
Max(a, b) == IF a > b THEN a ELSE b

\* Later with a clock that stands still.
Later_Stopped(dt) == Min(MaxTime, now)

\* The clock after an await that took dt.
Later(dt) == Min(MaxTime, now + dt)
TimeSteps == {0, Tick}

NoneInFlight == [trade |-> 0, split |-> 0, gas |-> 0]
TotalInFlight == inFlight.trade + inFlight.split + inFlight.gas

NewRound == [submitted |-> {}, voidAt |-> 0]

\* if (res) { if (res.errors) { delay = delay * 10 } }
Backoff(d, res) == IF res = "errors" THEN d * 10 ELSE d

\* ClampDelay without the upper bound.
ClampDelay_NoUpperBound(d, base, max) == Max(d, base)

\* delay = Math.min(Math.max(delay, baseDelay), maxDelay)
ClampDelay(d, base, max) == Min(Max(d, base), max)

\* The imbalance threshold of line 135, in tenths.
ImbalanceThreshold == 12
\* The validity of an imbalance snapshot (1000 * 30 ms, line 128).
ImbalanceValidity == 30000
\* checkSplitTokens(2, delay)
SplitN == 2

loopFrame == UNCHANGED <<arbVars, selVars, poolVars, twinVars, loop2Vars, gateVars, botVars, duration, baseDelay, maxDelay, coinTypes>>

Crash(cause) == pc' = "ended" /\ exitCause' = cause

\* mainloop: while (new Date().getTime() - startTime < duration)
LoopHead ==
    /\ pc = "head"
    /\ IF now < duration
       THEN /\ pc' = "checkSplitTokens"
            /\ round' = NewRound
            /\ UNCHANGED exitCause
       ELSE /\ pc' = "ended"
            /\ exitCause' = "returned"
            /\ UNCHANGED round
    /\ UNCHANGED <<now, delay, srcIdx, stratIdx, ordersLeft, orderNo, txb, batch, inFlight,
                   imbalance, lastImbalanceCheckTime>>
    /\ loopFrame

\* What checkSplitTokens puts into splitTXB for one non-SUI coin type of which the
\* bot owns `count` coins: a split when fewer than n, a merge when more than 3n;
\* with no coin at all resp.data[0] is undefined and largest.coinObjectId throws.
SplitPlan(count, n) ==
    IF count < n THEN (IF count = 0 THEN "throw" ELSE "split")
    ELSE IF count > n * 3 THEN "merge"
    ELSE "none"

\* checkSplitTokens, lines 242-278: the queries, and the start of the awaited
\* submission of splitTXB when it holds a command.
checkSplitTokens ==
    /\ pc = "checkSplitTokens"
    /\ \E queries \in {"ok", "throw"}, count \in CoinCountSet :
          LET others == coinTypes \ {SUI.type}
              plan == IF others = {} THEN "none" ELSE SplitPlan(count, SplitN)
          IN  IF queries = "throw" \/ plan = "throw"
              THEN Crash("checkSplitTokens") /\ UNCHANGED inFlight
              ELSE IF plan = "none"
              THEN pc' = "splitTimer" /\ UNCHANGED <<inFlight, exitCause>>
              ELSE /\ pc' = "awaitSplit"
                   /\ inFlight' = [inFlight EXCEPT !.split = @ + 1]
                   /\ UNCHANGED exitCause
    /\ UNCHANGED <<now, delay, srcIdx, stratIdx, ordersLeft, orderNo, txb, batch, imbalance,
                   lastImbalanceCheckTime, round>>
    /\ loopFrame

\* line 274: await this.suiClient.signAndExecuteTransactionBlock(splitTXB) settles
SplitSubmissionSettles ==
    /\ pc = "awaitSplit"
    /\ inFlight' = [inFlight EXCEPT !.split = @ - 1]
    /\ \E ok \in BOOLEAN, dt \in TimeSteps :
          /\ now' = Later(dt)
          /\ IF ok THEN pc' = "splitTimer" /\ UNCHANGED exitCause
                   ELSE Crash("checkSplitTokens")
    /\ UNCHANGED <<delay, srcIdx, stratIdx, ordersLeft, orderNo, txb, batch, imbalance,
                   lastImbalanceCheckTime, round>>
    /\ loopFrame

\* The number of amounts checkSplitTokens splits off the gas coin when the bot owns
\* `count` SUI coins: for (i = 0; i < (n + 1 - count) * 2; i++) amts.push(..)
GasAmounts(count, n) == Max(0, (n + 1 - count) * 2)

\* lines 302-305: this.suiClient.signAndExecuteTransactionBlock(gasTXB) is called and
\* its promise dropped: the submission is in flight when checkSplitTokens returns.
StartGasSplit(f) == [f EXCEPT !.gas = @ + 1]

\* checkSplitTokens, lines 280-307: the timer, then the gas split.
checkSplitTokensGas ==
    /\ pc = "splitTimer"
    /\ \E dt \in TimeSteps, queries \in {"ok", "throw"}, count \in CoinCountSet :
          /\ now' = Later(dt)
          /\ IF SUI.type \notin coinTypes
             THEN pc' = "timer" /\ UNCHANGED <<inFlight, exitCause>>
             ELSE IF queries = "throw"
             THEN Crash("checkSplitTokens") /\ UNCHANGED inFlight
             ELSE IF GasAmounts(count, SplitN) = 0
             THEN pc' = "timer" /\ UNCHANGED <<inFlight, exitCause>>
             ELSE /\ inFlight.gas < MaxPending
                  /\ inFlight' = StartGasSplit(inFlight)
                  /\ pc' = "timer"
                  /\ UNCHANGED exitCause
    /\ UNCHANGED <<delay, srcIdx, stratIdx, ordersLeft, orderNo, txb, batch, imbalance,
                   lastImbalanceCheckTime, round>>
    /\ loopFrame

\* The dropped promise of the gas split settles, at any time.  When it rejects, the
\* rejection is unhandled: the runtime either only warns or ends the process.
GasSplitSettles ==
    /\ inFlight.gas > 0
    /\ inFlight' = [inFlight EXCEPT !.gas = @ - 1]
    /\ \E outcome \in {"fulfilled", "rejected", "rejected, process ends"} :
          IF outcome = "rejected, process ends" /\ pc # "ended"
          THEN Crash("unhandled rejection")
          ELSE UNCHANGED <<pc, exitCause>>
    /\ UNCHANGED <<now, delay, srcIdx, stratIdx, ordersLeft, orderNo, txb, batch, imbalance,
                   lastImbalanceCheckTime, round>>
    /\ loopFrame

\* line 88: await setTimeout(delay), then the for loop over this.dataSources begins
Timer ==
    /\ pc = "timer"
    /\ \E dt \in TimeSteps : now' = Later(dt)
    /\ srcIdx' = 1
    /\ pc' = "poll"
    /\ UNCHANGED <<delay, stratIdx, ordersLeft, orderNo, txb, batch, inFlight, imbalance,
                   lastImbalanceCheckTime, round, exitCause>>
    /\ loopFrame

\* PollNoData with a plain `continue`: the loop goes on with the next data source.
PollNoData_NextSource ==
    /\ pc = "poll"
    /\ round' = [round EXCEPT !.voidAt = srcIdx]
    /\ srcIdx' = srcIdx + 1
    /\ pc' = IF srcIdx + 1 > NumSources THEN "timer2" ELSE "poll"
    /\ UNCHANGED <<stratIdx, exitCause>>

\* lines 93-99: if (!data) { ...; continue mainloop }
PollNoData ==
    /\ pc = "poll"
    /\ round' = [round EXCEPT !.voidAt = srcIdx]
    /\ pc' = "head"
    /\ UNCHANGED <<srcIdx, stratIdx, exitCause>>

\* lines 90-91: let data = await dataSource.getData()
Poll ==
    /\ pc = "poll"
    /\ \E dt \in TimeSteps : now' = Later(dt)
    /\ \E outcome \in {"data", "no data", "throw"} :
          IF outcome = "throw" THEN Crash("getData") /\ UNCHANGED <<srcIdx, stratIdx, round>>
          ELSE IF outcome = "no data" THEN PollNoData
          ELSE /\ stratIdx' = 1
               /\ pc' = "evaluate"
               /\ UNCHANGED <<srcIdx, round, exitCause>>
    /\ UNCHANGED <<delay, ordersLeft, orderNo, txb, batch, inFlight, imbalance,
                   lastImbalanceCheckTime>>
    /\ loopFrame

\* What the loop knows of one strategy evaluation.
NewBatch == [orders |-> <<>>, outcome |-> "none", res |-> "none"]

\* lines 111-114: let tradeOrders = strategy.evaluate(data); let txb = new TransactionBlock()
Evaluate ==
    /\ pc = "evaluate"
    /\ \E n \in 0..MaxOrders :
          /\ ordersLeft' = n
          /\ pc' = IF n = 0 THEN "execute" ELSE "order"
    /\ orderNo' = 0
    /\ txb' = <<>>
    /\ batch' = NewBatch
    /\ UNCHANGED <<now, delay, srcIdx, stratIdx, inFlight, imbalance,
                   lastImbalanceCheckTime, round, exitCause>>
    /\ loopFrame

\* NeedsImbalanceQuery with a snapshot of exactly the validity still taken as good.
NeedsImbalanceQuery_StrictlyOlder ==
    ~imbalance.defined \/ lastImbalanceCheckTime + ImbalanceValidity < now

\* line 128: !this.imbalance || this.lastImbalanceCheckTime + 1000 * 30 <= Date.now()
NeedsImbalanceQuery ==
    ~imbalance.defined \/ lastImbalanceCheckTime + ImbalanceValidity <= now

\* Gated with the ratios read as percentages.
Gated_WrongUnit(imb, assetIn) ==
    LET type == AssetTypeToSymbol(assetIn)
    IN  type # "undefined" /\ type \in DOMAIN imb /\ imb[type] >= ImbalanceThreshold * 10

\* line 135: type && imb[type] >= 1.2
Gated(imb, assetIn) ==
    LET type == AssetTypeToSymbol(assetIn)
    IN  type # "undefined" /\ type \in DOMAIN imb /\ imb[type] >= ImbalanceThreshold

\* this.pools[order.poolUuid].createSwapTransaction(txb, {...}), with what the ledger
\* answers to the pool's balance queries
createSwapTransaction(order, block, baseCoins, totalBalance) ==
    IF Pools[order.poolUuid].kind = "RAMM"
    THEN RAMMcreateSwapTransaction(Pools[order.poolUuid].coinA, Pools[order.poolUuid].coinB,
                                   block, order, baseCoins)
    ELSE CetuscreateSwapTransaction(block, order, totalBalance)

\* pool instanceof RAMMPool, line 127
IsRAMM(order) == Pools[order.poolUuid].kind = "RAMM"

\* The answers the environment may give to a query: those of `answers` when the
\* query is made, and one that is never looked at when it is not.
AnswersOf(asked, answers) == IF asked THEN answers ELSE {CHOOSE a \in answers : TRUE}

\* The commands of a block of the loop, and commands marked as built for order k
\* of the evaluation, against pool i.
Commands(t) == [j \in 1..Len(t) |-> t[j].cmd]
BuiltFor(cmds, k, i) == [j \in 1..Len(cmds) |-> [order |-> k, pool |-> i, cmd |-> cmds[j]]]

\* line 141: txb = await ...createSwapTransaction(txb, ...): the loop's block is the
\* block returned, which is the one given with the commands added to it, or a new one.
Assigned(old, swap, k, i) ==
    IF swap.fresh THEN BuiltFor(swap.txb, k, i)
    ELSE old \o BuiltFor(SubSeq(swap.txb, Len(old) + 1, Len(swap.txb)), k, i)

\* The spendable balance of the order's input asset that the pool queried while it
\* built the swap, or -1 when it queried none.
QueriedBalance(swap, baseCoins, totalBalance) ==
    IF swap.path = "cetus" THEN totalBalance
    ELSE IF swap.path \in {"single", "accumulate"} THEN SumBalances(baseCoins)
    ELSE 0 - 1

\* The imbalance ratio the gate compared for the order, or 0 when it compared none.
RatioOf(imb, order) ==
    LET type == AssetTypeToSymbol(order.assetIn)
    IN  IF IsRAMM(order) /\ type # "undefined" /\ type \in DOMAIN imb THEN imb[type] ELSE 0

\* What became of one order.
Visited(order, ratio, fate, swap, balance) ==
    [pool |-> order.poolUuid, amountIn |-> order.amountIn, ratio |-> ratio, fate |-> fate,
     path |-> swap.path, error |-> swap.error.kind, balance |-> balance]

NotBuilt == [path |-> "none", error |-> NoError]

\* lines 116-150: one turn of `for (const order of tradeOrders)`
Order ==
    /\ pc = "order"
    /\ \E order \in TradeOrders, dt \in TimeSteps :
       \E imbRatios \in AnswersOf(IsRAMM(order) /\ NeedsImbalanceQuery, ImbRatioSets),
          query \in AnswersOf(IsRAMM(order) /\ NeedsImbalanceQuery, {"ok", "throw"}),
          baseCoins \in AnswersOf(IsRAMM(order), LoopCoinLists),
          totalBalance \in AnswersOf(~IsRAMM(order), TotalBalanceSet) :
          LET isRAMM == IsRAMM(order)
              queried == isRAMM /\ NeedsImbalanceQuery
              imb == IF queried THEN [defined |-> TRUE, pool |-> order.poolUuid,
                                      imbRatios |-> imbRatios]
                     ELSE imbalance
              swap == createSwapTransaction(order, Commands(txb), baseCoins, totalBalance)
              ratio == IF isRAMM THEN RatioOf(imb.imbRatios, order) ELSE 0
              balance == QueriedBalance(swap, baseCoins, totalBalance)
              built == swap.fresh \/ Len(swap.txb) > Len(txb)
          IN  IF queried /\ query = "throw"
              THEN /\ Crash("getImbalance")
                   /\ now' = Later(dt)
                   /\ UNCHANGED <<txb, batch, ordersLeft, orderNo, imbalance,
                                  lastImbalanceCheckTime>>
              ELSE /\ imbalance' = imb
                   /\ now' = Later(dt)
                   /\ lastImbalanceCheckTime' =
                         IF queried THEN Later(dt) ELSE lastImbalanceCheckTime
                   /\ IF isRAMM /\ Gated(imb.imbRatios, order.assetIn)
                      THEN /\ txb' = <<>>                \* txb = new TransactionBlock(); break
                           /\ batch' = [batch EXCEPT !.orders =
                                 Append(@, Visited(order, ratio, "gated", NotBuilt, 0 - 1))]
                           /\ pc' = "execute"
                           /\ ordersLeft' = 0
                           /\ orderNo' = orderNo + 1
                           /\ UNCHANGED exitCause
                      ELSE IF swap.outcome = "throw"
                      THEN /\ Crash("createSwapTransaction")
                           /\ batch' = [batch EXCEPT !.orders =
                                 Append(@, Visited(order, ratio, "threw", swap, balance))]
                           /\ UNCHANGED <<txb, ordersLeft, orderNo>>
                      ELSE /\ txb' = Assigned(txb, swap, orderNo + 1, order.poolUuid)
                           /\ batch' = [batch EXCEPT !.orders =
                                 Append(@, Visited(order, ratio,
                                                   IF built THEN "built" ELSE "not built",
                                                   swap, balance))]
                           /\ ordersLeft' = ordersLeft - 1
                           /\ orderNo' = orderNo + 1
                           /\ pc' = IF ordersLeft = 1 THEN "execute" ELSE "order"
                           /\ UNCHANGED exitCause
    /\ UNCHANGED <<delay, srcIdx, stratIdx, inFlight, round>>
    /\ loopFrame

\* The end of one turn of `for (const strategy of this.strategies[uri])`: the next
\* strategy, the next data source, or line 168.
NextStrategy ==
    IF stratIdx < NumStrategies(srcIdx)
    THEN stratIdx' = stratIdx + 1 /\ pc' = "evaluate" /\ UNCHANGED srcIdx
    ELSE /\ stratIdx' = 0
         /\ srcIdx' = srcIdx + 1
         /\ pc' = IF srcIdx + 1 > NumSources THEN "timer2" ELSE "poll"

\* executeTransactionBlock, lines 315-326: an empty block is not submitted and the
\* result is undefined; else the submission starts.
executeTransactionBlock ==
    /\ pc = "execute"
    /\ IF txb # <<>>
       THEN /\ inFlight' = [inFlight EXCEPT !.trade = @ + 1]
            /\ round' = [round EXCEPT !.submitted = @ \cup {srcIdx}]
            /\ batch' = [batch EXCEPT !.outcome = "in flight"]
            /\ pc' = "awaitExecute"
       ELSE /\ batch' = [batch EXCEPT !.outcome = "not submitted", !.res = "undefined"]
            /\ pc' = "executed"
            /\ UNCHANGED <<inFlight, round>>
    /\ UNCHANGED <<now, delay, srcIdx, stratIdx, ordersLeft, orderNo, txb, imbalance,
                   lastImbalanceCheckTime, exitCause>>
    /\ loopFrame

\* What executeTransactionBlock returns when the submission settled: the response,
\* or undefined when the call threw (catch (e) { logger.error(e) }, lines 332-336).
Returned(outcome) == IF outcome = "threw" THEN "undefined" ELSE outcome

\* The awaited submission settles (lines 319-336): the ledger answers with a response,
\* or with a response carrying errors, or the call throws.
SubmissionSettles ==
    /\ pc = "awaitExecute"
    /\ inFlight' = [inFlight EXCEPT !.trade = @ - 1]
    /\ \E outcome \in {"response", "errors", "threw"}, dt \in TimeSteps :
          /\ now' = Later(dt)
          /\ batch' = [batch EXCEPT !.outcome = outcome, !.res = Returned(outcome)]
    /\ pc' = "executed"
    /\ UNCHANGED <<delay, srcIdx, stratIdx, ordersLeft, orderNo, txb, imbalance,
                   lastImbalanceCheckTime, round, exitCause>>
    /\ loopFrame

\* lines 158-166: the backoff, the clamp, and the end of the strategy's turn, where
\* the turn's txb and tradeOrders go out of scope.
AfterExecute ==
    /\ pc = "executed"
    /\ delay' = ClampDelay(Backoff(delay, batch.res), baseDelay, maxDelay)
    /\ NextStrategy
    /\ txb' = <<>>
    /\ batch' = NewBatch
    /\ orderNo' = 0
    /\ UNCHANGED <<now, ordersLeft, inFlight, imbalance, lastImbalanceCheckTime, round,
                   exitCause>>
    /\ loopFrame

\* line 168: await setTimeout(delay)
Timer2 ==
    /\ pc = "timer2"
    /\ \E dt \in TimeSteps : now' = Later(dt)
    /\ pc' = "head"
    /\ UNCHANGED <<delay, srcIdx, stratIdx, ordersLeft, orderNo, txb, batch, inFlight, imbalance,
                   lastImbalanceCheckTime, round, exitCause>>
    /\ loopFrame

(***************************************************************************)
(* Capybot: addPool, addDataSource, addStrategy                            *)
(***************************************************************************)
\* The identities that may be added to the bot: the pools a chain may name, and as
\* plain data sources one more uri and the uri of the first pool.  A pool's uri is
\* its uuid.
PoolUris == ChainPools
SourceUris == {PoolUuid(0), PoolUuid(1)}

\* The calls of addPool ask for rebalancing or not; the first pool is added either way.
RebalanceChoices(uri) == IF uri = PoolUuid(1) THEN BOOLEAN ELSE {FALSE}

\* strategy.uri of the one strategy instance
StrategyUri == "arbitrage"

\* The pool object with a given uri.
BotPool(uri) == Hop(uri[2], MaxHops, TRUE)

NoBotCall == [op |-> "none", threw |-> FALSE]

\* The tables after the constructor.
BotIdle ==
    /\ dataSources = {}
    /\ pools = {}
    /\ poolKeypairs = {}
    /\ rebalanceKeypairs = {}
    /\ strategies = [u \in {} |-> <<>>]
    /\ botCall = NoBotCall

\* addDataSourceTo with the list of strategies emptied before the uri is looked up.
addDataSourceTo_Resets(ds, strats, uri) ==
    IF uri \in ds
    THEN [threw |-> TRUE, dataSources |-> ds,
          strategies |-> [u \in DOMAIN strats |-> IF u = uri THEN <<>> ELSE strats[u]]]
    ELSE [threw |-> FALSE, dataSources |-> ds \cup {uri},
          strategies |-> [u \in DOMAIN strats \cup {uri} |->
                             IF u = uri THEN <<>> ELSE strats[u]]]

\* addDataSourceTo without line 360: no list of strategies is created for the uri.
addDataSourceTo_NoList(ds, strats, uri) ==
    IF uri \in ds
    THEN [threw |-> TRUE, dataSources |-> ds, strategies |-> strats]
    ELSE [threw |-> FALSE, dataSources |-> ds \cup {uri}, strategies |-> strats]

\* addDataSource(dataSource) on tables ds and strats: it throws when the uri is a key
\* of dataSources, and else adds the uri with an empty list of strategies.
addDataSourceTo(ds, strats, uri) ==
    IF uri \in ds
    THEN [threw |-> TRUE, dataSources |-> ds, strategies |-> strats]
    ELSE [threw |-> FALSE, dataSources |-> ds \cup {uri},
          strategies |-> [u \in DOMAIN strats \cup {uri} |->
                             IF u = uri THEN <<>> ELSE strats[u]]]

\* addDataSource(dataSource), called on the bot with a data source of the given uri
addDataSourceOf(uri) ==
    LET r == addDataSourceTo(dataSources, strategies, uri)
    IN  /\ dataSources' = r.dataSources
        /\ strategies' = r.strategies
        /\ botCall' = [op |-> "addDataSource", threw |-> r.threw]
        /\ UNCHANGED <<pools, poolKeypairs, rebalanceKeypairs, arbVars, selVars, poolVars, twinVars, loop2Vars, gateVars, loopVars>>

addDataSource == \E uri \in SourceUris : addDataSourceOf(uri)

\* addPool(pool, keypair, requiresRebalance): it throws when the pool is a key of
\* pools; else it stores the pool and its keypair and calls addDataSource, which may
\* throw; the rebalance bookkeeping comes last.
addPoolOf(uri, requiresRebalance) ==
    IF uri \in pools
    THEN /\ botCall' = [op |-> "addPool", threw |-> TRUE]
         /\ UNCHANGED <<dataSources, pools, poolKeypairs, rebalanceKeypairs, strategies,
                        arbVars, selVars, poolVars, twinVars, loop2Vars, gateVars, loopVars>>
    ELSE LET r == addDataSourceTo(dataSources, strategies, uri)
         IN  /\ pools' = pools \cup {uri}
             /\ poolKeypairs' = poolKeypairs \cup {uri}
             /\ dataSources' = r.dataSources
             /\ strategies' = r.strategies
             /\ botCall' = [op |-> "addPool", threw |-> r.threw]
             /\ IF ~r.threw /\ requiresRebalance
                THEN /\ rebalanceKeypairs' = rebalanceKeypairs \cup {uri}
                     /\ coinTypes' = coinTypes \cup {BotPool(uri).coinA.type,
                                                     BotPool(uri).coinB.type}
                ELSE UNCHANGED <<rebalanceKeypairs, coinTypes>>
             /\ UNCHANGED <<arbVars, selVars, poolVars, twinVars, loop2Vars, gateVars, pc, now, duration, delay, baseDelay,
                            maxDelay, srcIdx, stratIdx, ordersLeft, orderNo, txb, batch,
                            inFlight, imbalance, lastImbalanceCheckTime, round, exitCause>>

addPool ==
    \E uri \in PoolUris : \E requiresRebalance \in RebalanceChoices(uri) :
        addPoolOf(uri, requiresRebalance)

\* addStrategy without the check of line 341: it stores the strategy under the sources
\* it knows and never throws.
Register_NoCheck(strats, ds, subs, i) ==
    [threw |-> FALSE,
     strategies |-> [u \in DOMAIN strats |->
                        IF \E j \in i..Len(subs) : subs[j] = u
                        THEN Append(strats[u], StrategyUri) ELSE strats[u]]]

\* The loop of addStrategy over strategy.subscribes_to(), from position i on: it
\* throws at the first source that is not a key of dataSources, after it has pushed
\* the strategy under the sources before it.
RECURSIVE Register(_, _, _, _)
Register(strats, ds, subs, i) ==
    IF i > Len(subs) THEN [threw |-> FALSE, strategies |-> strats]
    ELSE IF subs[i] \notin ds \/ subs[i] \notin DOMAIN strats
    THEN [threw |-> TRUE, strategies |-> strats]
    ELSE Register([strats EXCEPT ![subs[i]] = Append(@, StrategyUri)], ds, subs, i + 1)

\* addStrategy(strategy), with the strategy instance of this model
addStrategy ==
    /\ \A u \in DOMAIN strategies : Len(strategies[u]) < MaxRegistrations
    /\ LET r == Register(strategies, dataSources, subscribes_to, 1)
       IN  /\ strategies' = r.strategies
           /\ botCall' = [op |-> "addStrategy", threw |-> r.threw]
    /\ UNCHANGED <<dataSources, pools, poolKeypairs, rebalanceKeypairs, arbVars, selVars, poolVars, twinVars, loop2Vars, gateVars,
                   loopVars>>

(***************************************************************************)
(* Pool: the constructor and getData                                       *)
(* Strings are sequences of characters.  uuidv5 is a hash: it is modelled  *)
(* as a tag on the name it hashes, that is, as free of collisions.         *)
(***************************************************************************)
\* The UTF-16 code unit of a character.
CodeUnit(c) ==
    CASE c = "," -> 44 [] c = "2" -> 50 [] c = "5" -> 53 [] c = "7" -> 55 [] c = ":" -> 58
      [] c = "<" -> 60 [] c = ">" -> 62 [] c = "C" -> 67 [] c = "L" -> 76 [] c = "S" -> 83
      [] c = "a" -> 97 [] c = "b" -> 98

\* s < t on strings: the order of the code units at the first difference, a proper
\* prefix being smaller.
RECURSIVE StringLess(_, _)
StringLess(s, t) ==
    IF t = <<>> THEN FALSE
    ELSE IF s = <<>> THEN TRUE
    ELSE IF Head(s) = Head(t) THEN StringLess(Tail(s), Tail(t))
    ELSE CodeUnit(Head(s)) < CodeUnit(Head(t))

\* types.join(): the elements separated by commas
RECURSIVE join(_)
join(types) ==
    IF types = <<>> THEN <<>>
    ELSE IF Len(types) = 1 THEN types[1]
    ELSE types[1] \o <<",">> \o join(Tail(types))

POOL_UUID_NAMESPACE == "8b05a61f-0c4c-428c-9a91-8955d8119419"

\* uuidv5(name, namespace)
uuidv5(name, namespace) == <<"uuidv5", namespace, name>>

\* The name hashed by the constructor, with the asset types in the order declared.
PoolName_Unsorted(address, coinTypeA, coinTypeB) == join(<<address, coinTypeA, coinTypeB>>)

\* lines 61-71: types = [address], then the two asset types, the smaller first
PoolName(address, coinTypeA, coinTypeB) ==
    IF StringLess(coinTypeA, coinTypeB)
    THEN join(<<address, coinTypeA, coinTypeB>>)
    ELSE join(<<address, coinTypeB, coinTypeA>>)

\* new Pool(address, coinA, coinB): super(uuid) makes the uuid the data source's uri
PoolConstructor(address, coinA, coinB) ==
    LET uuid == uuidv5(PoolName(address, coinA.type, coinB.type), POOL_UUID_NAMESPACE)
    IN  [uri |-> uuid, uuid |-> uuid, address |-> address, coinA |-> coinA, coinB |-> coinB]

\* Asset types: two plain coins, and two instances of a generic coin whose type
\* arguments are separated by a comma.  Addresses of pools.
PoolCoinTypes ==
    {<<"2", ":", "S">>, <<"5", ":", "C">>,
     <<"7", ":", "L", "<", "2", ":", "S", ",", "5", ":", "C", ">">>,
     <<"7", ":", "L", "<", "5", ":", "C", ",", "2", ":", "S", ">">>}
PoolCoins == {[type |-> t, decimals |-> 6] : t \in PoolCoinTypes}
PoolAddresses == {<<"a">>, <<"a", "b">>}
PoolArgs == [address : PoolAddresses, coinA : PoolCoins, coinB : PoolCoins]

NoPool == [uri |-> <<>>, uuid |-> <<>>, address |-> <<>>, coinA |-> <<>>, coinB |-> <<>>]
NoData == [type |-> "none"]

PoolIdle ==
    made = [args |-> <<>>, constructed |-> FALSE, pool |-> <<NoPool, NoPool>>, data |-> NoData]

\* Two pools are about to be constructed.
PoolInit ==
    \E a, b \in PoolArgs :
        made = [args |-> <<a, b>>, constructed |-> FALSE, pool |-> <<NoPool, NoPool>>,
                data |-> NoData]

\* The two constructor calls.
Construct ==
    /\ ~made.constructed
    /\ made' = [made EXCEPT
                  !.constructed = TRUE,
                  !.pool = [i \in 1..2 |-> PoolConstructor(made.args[i].address,
                                                           made.args[i].coinA,
                                                           made.args[i].coinB)]]
    /\ UNCHANGED <<arbVars, selVars, loopVars, botVars, twinVars, loop2Vars, gateVars>>

\* getData(amount) on one of the pools, with the price and fee the venue estimates.
getData ==
    /\ made.constructed
    /\ \E i \in 1..2, priceAndFee \in Quotes :
          made' = [made EXCEPT !.data =
                      [type |-> "Price", source_uri |-> made.pool[i].uri,
                       coinTypeFrom |-> made.pool[i].coinA.type,
                       coinTypeTo |-> made.pool[i].coinB.type,
                       price |-> priceAndFee.price, fee |-> priceAndFee.fee]]
    /\ UNCHANGED <<arbVars, selVars, loopVars, botVars, twinVars, loop2Vars, gateVars>>

PoolNext ==
    \/ Construct
    \/ getData

(***************************************************************************)
(* Capybot.loop, second variant (capybot.ts lines 456-610): no token       *)
(* split and no imbalance gate; one delay, at the end of an iteration.     *)
(* The bot holds the pools of Pools, each a data source; the one RAMM pool *)
(* is the only entry of rammPools.                                         *)
(***************************************************************************)
\* The loop before it is called.
Loop2Idle ==
    loop2 = [pc |-> "idle", now |-> 0, duration |-> 0, srcIdx |-> 0, stratIdx |-> 0,
             tradeOrders |-> <<>>, transactions |-> 0, sinceVoid |-> "none",
             exitCause |-> "none"]

\* loop(duration, delay): startTime = new Date().getTime(); transactionBlock = new
\* TransactionBlock()
Loop2Init ==
    \E d \in DurationSet :
        loop2 = [pc |-> "head", now |-> 0, duration |-> d, srcIdx |-> 0, stratIdx |-> 0,
                 tradeOrders |-> <<>>, transactions |-> 0, sinceVoid |-> "none",
                 exitCause |-> "none"]

loop2Frame == UNCHANGED <<arbVars, selVars, loopVars, botVars, poolVars, twinVars, gateVars>>

\* The clock of the second loop after an await that took dt.
Later2(dt) == Min(MaxTime, loop2.now + dt)

\* A thrown error leaves the loop l.
Crash2(l, cause) == [l EXCEPT !.pc = "ended", !.exitCause = cause]

\* line 470: mainloop: while (new Date().getTime() - startTime < duration)
LoopHead2 ==
    /\ loop2.pc = "head"
    /\ loop2' = IF loop2.now < loop2.duration
                THEN [loop2 EXCEPT !.pc = "poll", !.srcIdx = 1]
                ELSE [loop2 EXCEPT !.pc = "ended", !.exitCause = "returned"]
    /\ loop2Frame

\* lines 471-481: let data = await dataSource.getData(); if (!data) { ...; continue
\* mainloop }.  sinceVoid is "void" once a poll has given no data and "polled" once a
\* data source is polled after that; the delay of line 609 resets it.
Poll2 ==
    /\ loop2.pc = "poll"
    /\ \E dt \in TimeSteps : \E outcome \in {"data", "no data", "throw"} :
          LET polling == [loop2 EXCEPT !.now = Later2(dt),
                                       !.sinceVoid = IF @ = "void" THEN "polled" ELSE @]
          IN  loop2' =
                  IF outcome = "throw" THEN Crash2(polling, "getData")
                  ELSE IF outcome = "no data"
                       THEN [polling EXCEPT !.pc = "head",
                                            !.sinceVoid = IF @ = "polled" THEN "polled" ELSE "void"]
                  ELSE [polling EXCEPT !.pc = "evaluate", !.stratIdx = 1]
    /\ loop2Frame

\* lines 491-493: for (const strategy of this.strategies[uri]) { let tradeOrders =
\* strategy.evaluate(data) }; after the last source the loop goes on to the RAMM log.
Evaluate2 ==
    /\ loop2.pc = "evaluate"
    /\ IF loop2.stratIdx > NumStrategies(loop2.srcIdx)
       THEN loop2' = [loop2 EXCEPT !.srcIdx = @ + 1,
                                   !.pc = IF loop2.srcIdx + 1 > NumSources
                                          THEN "log" ELSE "poll"]
       ELSE \E n \in 0..MaxOrders : \E orders \in [1..n -> TradeOrders] :
               loop2' = [loop2 EXCEPT !.tradeOrders = orders, !.pc = "order"]
    /\ loop2Frame

\* lines 496-531: the next order.  For a Cetus pool a new block receives the swap and
\* is not submitted; for a RAMM pool a new block receives the swap and is submitted.
Order2 ==
    /\ loop2.pc = "order"
    /\ IF loop2.tradeOrders = <<>>
       THEN loop2' = [loop2 EXCEPT !.stratIdx = @ + 1, !.pc = "evaluate"]
       ELSE LET order == Head(loop2.tradeOrders)
                kind == Pools[order.poolUuid].kind
            IN  \E dt \in TimeSteps : \E built \in {"swap", "nothing", "throw"} :
                   loop2' =
                       IF built = "throw"
                       THEN Crash2([loop2 EXCEPT !.now = Later2(dt)], "createSwapTransaction")
                       ELSE [loop2 EXCEPT !.now = Later2(dt),
                                          !.transactions = IF built = "swap" THEN 1 ELSE 0,
                                          !.tradeOrders = IF kind = "RAMM" THEN @ ELSE Tail(@),
                                          !.pc = IF kind = "RAMM" THEN "execute" ELSE "order"]
    /\ loop2Frame

\* lines 533-566 and 620-649: executeTransactionBlock returns undefined for an empty
\* block or a caught error, else the response; a response without a TradeEvent makes
\* the loop throw.
executeTransactionBlock2 ==
    /\ loop2.pc = "execute"
    /\ LET next == [loop2 EXCEPT !.tradeOrders = Tail(@), !.pc = "order"]
       IN  IF loop2.transactions = 0
           THEN loop2' = next
           ELSE \E dt \in TimeSteps : \E res \in {"response", "no TradeEvent", "caught"} :
                   loop2' = IF res = "no TradeEvent"
                            THEN Crash2([loop2 EXCEPT !.now = Later2(dt)],
                                        "No ImbalanceRatioEvent found in the response")
                            ELSE [next EXCEPT !.now = Later2(dt)]
    /\ loop2Frame

\* lines 581-606: the pool state and imbalance ratios of every RAMM pool are queried
\* and logged; an error is caught and logged.
LogRammPools ==
    /\ loop2.pc = "log"
    /\ \E dt \in TimeSteps : loop2' = [loop2 EXCEPT !.now = Later2(dt), !.pc = "timer"]
    /\ loop2Frame

\* line 609: await setTimeout(delay)
Timer2nd ==
    /\ loop2.pc = "timer"
    /\ \E dt \in TimeSteps :
          loop2' = [loop2 EXCEPT !.now = Later2(dt), !.pc = "head", !.sinceVoid = "none"]
    /\ loop2Frame

Loop2Next ==
    \/ LoopHead2
    \/ Poll2
    \/ Evaluate2
    \/ Order2
    \/ executeTransactionBlock2
    \/ LogRammPools
    \/ Timer2nd

(***************************************************************************)
(* The imbalance gate of Capybot.loop (capybot.ts lines 127-139) for a bot *)
(* to which two RAMM pools were added.  The snapshot and its time are      *)
(* fields of the bot.                                                      *)
(***************************************************************************)
\* The uuids of the two RAMM pools, and the orders a strategy may return for them.
GatedPools == {"ramm 1", "ramm 2"}
GateOrders ==
    {[poolUuid |-> p, assetIn |-> a] : p \in GatedPools, a \in {SUI.type, USDC.type, WBTC.type}}

NoOrder == [poolUuid |-> "none", assetIn |-> "none"]

\* private imbalance!: RAMMImbalanceRatioData; private lastImbalanceCheckTime!: number
GateIdle ==
    gate = [started |-> FALSE, imbalance |-> [defined |-> FALSE], lastImbalanceCheckTime |-> 0,
            now |-> 0, order |-> NoOrder, decision |-> "none"]

GateInit ==
    gate = [started |-> TRUE, imbalance |-> [defined |-> FALSE], lastImbalanceCheckTime |-> 0,
            now |-> 0, order |-> NoOrder, decision |-> "none"]

gateFrame == UNCHANGED <<arbVars, selVars, loopVars, botVars, poolVars, twinVars, loop2Vars>>

\* lines 127-138 for one order: the snapshot is queried from the order's pool when
\* there is none or it is 30 s old; the ratio of the order's input asset in the
\* snapshot held decides.
GateOrder ==
    /\ gate.started
    /\ \E order \in GateOrders, dt \in TimeSteps :
          LET queried == \/ ~gate.imbalance.defined
                         \/ gate.lastImbalanceCheckTime + ImbalanceValidity <= gate.now
              after == Min(MaxTime, gate.now + dt)
          IN  \E imbRatios \in AnswersOf(queried, ImbRatioSets) :
                 LET imb == IF queried
                            THEN [defined |-> TRUE, pool |-> order.poolUuid,
                                  imbRatios |-> imbRatios]
                            ELSE gate.imbalance
                 IN  gate' = [started |-> TRUE,
                              imbalance |-> imb,
                              lastImbalanceCheckTime |->
                                  IF queried THEN after ELSE gate.lastImbalanceCheckTime,
                              now |-> after,
                              order |-> order,
                              decision |-> IF Gated(imb.imbRatios, order.assetIn)
                                           THEN "blocked" ELSE "allowed"]
    /\ gateFrame

\* The rest of the loop between two orders takes time: swaps are built and submitted,
\* the loop waits its delay.
GateElapse ==
    /\ gate.started
    /\ gate.now < MaxTime
    /\ gate' = [gate EXCEPT !.now = Min(MaxTime, gate.now + Tick)]
    /\ gateFrame

GateNext == GateOrder \/ GateElapse

(***************************************************************************)
(* Initial states and specifications                                       *)
(***************************************************************************)
ArbCreated(chains, limits) ==
    /\ poolChain \in chains
    /\ declaredChain = poolChain
    /\ lowerLimit \in limits
    /\ defaultAmount \in AmountSet
    /\ latestRate = [p \in ChainPools |-> Undef]
    /\ latestFee = [p \in ChainPools |-> Undef]
    /\ ret = NoCall

ArbInit == ArbCreated(Chains, LimitSet)

TwinIdle ==
    twin = [poolChain |-> <<>>, lowerLimit |-> One,
            latestRate |-> [p \in ChainPools |-> Undef],
            latestFee |-> [p \in ChainPools |-> Undef], ret |-> NoCall]

ArbIdle ==
    /\ poolChain = <<>>
    /\ declaredChain = <<>>
    /\ lowerLimit = One
    /\ defaultAmount = One
    /\ latestRate = [p \in ChainPools |-> Undef]
    /\ latestFee = [p \in ChainPools |-> Undef]
    /\ ret = NoCall

SelIdle ==
    sel = [called |-> FALSE, asset |-> SUI.type, quantity |-> 0, baseCoins |-> <<>>,
           gasBalance |-> 0, res |-> NoResult]

LoopIdle ==
    /\ pc = "idle"
    /\ now = 0
    /\ duration = 0
    /\ delay = 0
    /\ baseDelay = 0
    /\ maxDelay = 0
    /\ coinTypes = {}
    /\ srcIdx = 0
    /\ stratIdx = 0
    /\ ordersLeft = 0
    /\ orderNo = 0
    /\ txb = <<>>
    /\ batch = NewBatch
    /\ inFlight = NoneInFlight
    /\ imbalance = [defined |-> FALSE]
    /\ lastImbalanceCheckTime = 0
    /\ round = NewRound
    /\ exitCause = "none"

\* loop(duration, delay, maxDelay) is called on a bot whose pools and strategies are
\* registered; startTime is 0.
LoopCalledWith(durations, configs, coinTypeSets) ==
    /\ pc = "head"
    /\ now = 0
    /\ duration \in durations
    /\ \E c \in configs : delay = c.delay /\ baseDelay = c.delay /\ maxDelay = c.maxDelay
    /\ coinTypes \in coinTypeSets
    /\ srcIdx = 0
    /\ stratIdx = 0
    /\ ordersLeft = 0
    /\ orderNo = 0
    /\ txb = <<>>
    /\ batch = NewBatch
    /\ inFlight = NoneInFlight
    /\ imbalance = [defined |-> FALSE]
    /\ lastImbalanceCheckTime = 0
    /\ round = NewRound
    /\ exitCause = "none"

LoopCalled(durations) == LoopCalledWith(durations, DelayConfigs, CoinTypeSets)

LoopInit == LoopCalled(DurationSet)

Next ==
    \/ LoopHead
    \/ checkSplitTokens
    \/ SplitSubmissionSettles
    \/ checkSplitTokensGas
    \/ GasSplitSettles
    \/ Timer
    \/ Poll
    \/ Evaluate
    \/ Order
    \/ executeTransactionBlock
    \/ SubmissionSettles
    \/ AfterExecute
    \/ Timer2

Init == ArbIdle /\ SelIdle /\ LoopInit /\ BotIdle /\ PoolIdle /\ TwinIdle /\ Loop2Idle /\ GateIdle

Spec == Init /\ [][Next]_vars

\* loop is called with a duration beyond the horizon of the clock: the loop is not
\* ended by its duration for as long as it is observed.  Every step of the loop is
\* taken when it can be: the runtime resumes each continuation, and each awaited
\* request or timer settles.
LongDurationSet == {MaxTime + Tick}

InitLong == ArbIdle /\ SelIdle /\ LoopCalled(LongDurationSet) /\ BotIdle /\ PoolIdle /\ TwinIdle /\ Loop2Idle /\ GateIdle

SpecLong == InitLong /\ [][Next]_vars /\ WF_vars(Next)

\* The loop with its scheduling: every step that can be taken is taken (the runtime
\* resumes each continuation, each awaited request or timer settles), and the clock
\* does not stand still for ever at the timer of line 88, which waits `delay` ms in
\* every iteration.
LiveDelayConfigs == {[delay |-> 1000, maxDelay |-> 50000]}
LiveCoinTypeSets == {{SUI.type, USDC.type}}

InitLive ==
    /\ ArbIdle /\ SelIdle /\ BotIdle /\ PoolIdle /\ TwinIdle /\ Loop2Idle /\ GateIdle
    /\ LoopCalledWith(DurationSet, LiveDelayConfigs, LiveCoinTypeSets)

SpecLive == InitLive /\ [][Next]_vars /\ WF_vars(Next) /\ SF_vars(Timer /\ now' > now)

ArbNext == \E data \in DataPoints : evaluate(data) /\ UNCHANGED <<declaredChain, lowerLimit, defaultAmount, selVars, poolVars, twinVars, loop2Vars, gateVars, loopVars, botVars>>

InitArb == ArbInit /\ SelIdle /\ LoopIdle /\ BotIdle /\ PoolIdle /\ TwinIdle /\ Loop2Idle /\ GateIdle

SpecArb == InitArb /\ [][ArbNext]_vars

InitSel == ArbIdle /\ SelInit /\ LoopIdle /\ BotIdle /\ PoolIdle /\ TwinIdle /\ Loop2Idle /\ GateIdle

SpecSel == InitSel /\ [][SelCall]_vars

\* The strategies of the bot are constructed over chains of every length, with one
\* lower limit; the data they are given quote a price that makes the forward chain
\* profitable or one that makes the reverse chain profitable.
BotChains == {[i \in 1..n |-> Hop(i, n, TRUE)] : n \in 1..MaxHops}
BotLimitSet == {Num(1, 2)}
BotQuotes == {[price |-> Num(2, 1), fee |-> Num(0, 1)], [price |-> Num(1, 2), fee |-> Num(1, 10)]}
BotDataPoints ==
    {[type |-> "Price", source_uri |-> src, price |-> q.price, fee |-> q.fee] :
        src \in PoolUris \cup SourceUris, q \in BotQuotes}

\* capybot.ts lines 96-111: the data of a data source of the bot is given to the
\* strategies registered under its uri.
Deliver ==
    /\ \E data \in BotDataPoints :
          /\ data.source_uri \in dataSources
          /\ data.source_uri \in DOMAIN strategies
          /\ \E k \in 1..Len(strategies[data.source_uri]) :
                strategies[data.source_uri][k] = StrategyUri
          /\ evaluate(data)
    /\ UNCHANGED <<declaredChain, lowerLimit, defaultAmount, selVars, poolVars, twinVars, loop2Vars, gateVars, loopVars, botVars>>

\* The bot and its strategy: the tables are filled, and the strategy is given data.
BotNext ==
    \/ addPool
    \/ addDataSource
    \/ addStrategy
    \/ Deliver

InitBot == ArbCreated(BotChains, BotLimitSet) /\ SelIdle /\ LoopIdle /\ BotIdle /\ PoolIdle /\ TwinIdle /\ Loop2Idle /\ GateIdle

SpecBot == InitBot /\ [][BotNext]_vars

InitPool == ArbIdle /\ SelIdle /\ LoopIdle /\ BotIdle /\ PoolInit /\ TwinIdle /\ Loop2Idle /\ GateIdle

\* Two strategies constructed with the same chain and default amount and with lower
\* limits L1 <= L2: the instance of arbVars has L1, the second instance has L2.
TwinLimits ==
    {<<Num(1, 2), Num(1, 2)>>, <<Num(1, 2), Num(11, 10)>>, <<Num(11, 10), Num(11, 10)>>}

TwinInit ==
    \E limits \in TwinLimits :
        /\ ArbCreated(Chains, {limits[1]})
        /\ twin = [poolChain |-> poolChain, lowerLimit |-> limits[2],
                   latestRate |-> latestRate, latestFee |-> latestFee, ret |-> NoCall]

\* The observations given to the two strategies: among the quotes is one with a fee of
\* one half, with which the reverse product of a chain lies between the two limits.
TwinQuotes ==
    {[price |-> Num(2, 1), fee |-> Num(0, 1)], [price |-> Num(1, 2), fee |-> Num(1, 10)],
     [price |-> Num(1, 2), fee |-> Num(1, 2)]}
TwinDataPoints ==
    {[type |-> "Price", source_uri |-> src, price |-> q.price, fee |-> q.fee] :
        src \in ChainPools \cup {PoolUuid(0)}, q \in TwinQuotes}

\* Both strategies are given the same observation.
evaluateBoth ==
    \E data \in TwinDataPoints :
        /\ evaluate(data)
        /\ LET e == Evaluated(twin.poolChain, twin.latestRate, twin.latestFee,
                              twin.lowerLimit, defaultAmount, data)
           IN  twin' = [poolChain |-> e.poolChain, lowerLimit |-> twin.lowerLimit,
                        latestRate |-> e.latestRate, latestFee |-> e.latestFee,
                        ret |-> e.ret]
        /\ UNCHANGED <<declaredChain, lowerLimit, defaultAmount, selVars, loopVars, botVars,
                       poolVars, loop2Vars, gateVars>>

InitTwin == TwinInit /\ SelIdle /\ LoopIdle /\ BotIdle /\ PoolIdle /\ Loop2Idle /\ GateIdle

SpecTwin == InitTwin /\ [][evaluateBoth]_vars

SpecPool == InitPool /\ [][PoolNext]_vars

InitLoop2 == ArbIdle /\ SelIdle /\ LoopIdle /\ BotIdle /\ PoolIdle /\ TwinIdle /\ Loop2Init /\ GateIdle

SpecLoop2 == InitLoop2 /\ [][Loop2Next]_vars

InitGate ==
    /\ ArbIdle /\ SelIdle /\ LoopIdle /\ BotIdle /\ PoolIdle /\ TwinIdle /\ Loop2Idle
    /\ GateInit

SpecGate == InitGate /\ [][GateNext]_vars

(***************************************************************************)
(* Claims about Arbitrage.evaluate (checked under SpecArb)                 *)
(***************************************************************************)
NHops == Len(declaredChain)

\* The orders cover every declared hop exactly once, all with the declared
\* direction (inverted = FALSE) or all with the inverted one (inverted = TRUE).
FullSet(orders, inverted) ==
    /\ Len(orders) = NHops
    /\ \A i \in 1..NHops :
          Cardinality({k \in 1..Len(orders) :
                          /\ orders[k].poolUuid = declaredChain[i].poolUuid
                          /\ orders[k].a2b = (declaredChain[i].a2b # inverted)}) = 1

\* C3: every evaluate call returns no orders, or exactly n orders covering each
\* hop of the chain once, all in the declared or all in the inverted direction.
C3_ChainClosure ==
    ret.called => \/ ret.orders = <<>>
                  \/ FullSet(ret.orders, FALSE)
                  \/ FullSet(ret.orders, TRUE)

\* An evaluation of a chain of two hops, after an earlier reverse emission, that
\* returned orders.
C3_Witness ==
    /\ ret.called
    /\ NHops >= 2
    /\ poolChain # declaredChain
    /\ ret.orders # <<>>

\* The asset a hop takes in when traded in direction a2b.
InputAsset(hop, a2b) == IF a2b THEN hop.coinA.type ELSE hop.coinB.type

\* C9: whenever evaluate finds forward > lowerLimit, the k-th order names the
\* k-th declared hop's venue, its declared direction and its input asset.
C9_ForwardInDeclaredOrder ==
    (ret.called /\ ret.logged /\ Gt(ret.arbitrage, lowerLimit)) =>
        /\ Len(ret.orders) = NHops
        /\ \A k \in 1..NHops :
              /\ ret.orders[k].poolUuid = declaredChain[k].poolUuid
              /\ ret.orders[k].a2b = declaredChain[k].a2b
              /\ ret.orders[k].assetIn = InputAsset(declaredChain[k], declaredChain[k].a2b)

\* C10: whenever evaluate finds forward <= lowerLimit and reverse > lowerLimit, the
\* k-th order names the (n+1-k)-th declared hop's venue with the direction inverted,
\* the hop's declared output asset as assetIn, and the inverse of the declared
\* direction's rate as estimated price.
C10_ReverseInReversedOrder ==
    (ret.called /\ ret.logged /\ ~Gt(ret.arbitrage, lowerLimit)
        /\ Gt(ret.reverse, lowerLimit)) =>
        /\ Len(ret.orders) = NHops
        /\ \A k \in 1..NHops :
              LET hop == declaredChain[NHops + 1 - k] IN
              /\ ret.orders[k].poolUuid = hop.poolUuid
              /\ ret.orders[k].a2b = ~hop.a2b
              /\ ret.orders[k].assetIn = InputAsset(hop, ~hop.a2b)
              /\ ret.orders[k].estimatedPrice =
                    Inv(getLatestRate(latestRate, hop.poolUuid, hop.a2b))

(***************************************************************************)
(* Claims about the payment selector (checked under SpecSel)               *)
(***************************************************************************)
\* The ledger after the plan the selector returned was executed.
SelLedger == Execute(sel.res.txb, 1, Ledger(sel.baseCoins, sel.gasBalance))

\* The plan produces exactly one coin, of balance quantity.
PaysExactly == sel.res.outcome = "ok" /\ SelLedger.ok /\ SelLedger.out = <<sel.quantity>>

RECURSIVE PrefixSum(_, _)
PrefixSum(coins, m) == IF m = 0 THEN 0 ELSE PrefixSum(coins, m - 1) + coins[m].balance

\* A sequence of coins is in ascending order of balance.
Ascending(coins) == \A i \in 1..(Len(coins) - 1) : coins[i].balance <= coins[i + 1].balance

\* The ids of the coins the plan touches (merges from, merges into, splits from).
Touched(ops) ==
    UNION {{ops[i].coin} \cup {ops[i].sources[j] : j \in 1..Len(ops[i].sources)} :
           i \in {k \in 1..Len(ops) : ops[k].kind \in {"MergeCoins", "SplitCoins"}}}

\* ids are the coins of a shortest prefix of some ascending arrangement of coins
\* whose balances sum up to at least quantity.
IsMinimalAscendingPrefix(ids, coins, quantity) ==
    \E m \in 0..Len(coins) :
        /\ PrefixSum(sort(coins), m) >= quantity
        /\ \A j \in 0..(m - 1) : PrefixSum(sort(coins), j) < quantity
        /\ \E pick \in SUBSET (1..Len(coins)) :
              /\ Cardinality(pick) = m
              /\ ids = {coins[i].coinObjectId : i \in pick}
              /\ \A i \in pick, j \in (1..Len(coins)) \ pick :
                    coins[i].balance <= coins[j].balance

\* C4 as stated: for any list of owned units and any target not greater than the
\* sum of their balances, the payment unit's balance equals the target and the
\* units used are the minimal ascending prefix whose sum first reaches the target
\* (stated here for a non-gas asset, a positive target and positive balances).
C4_MinimalPrefixAlways ==
    (sel.called /\ ~IsGasAsset(sel.asset) /\ sel.quantity > 0
        /\ (\A i \in 1..Len(sel.baseCoins) : sel.baseCoins[i].balance > 0)
        /\ sel.quantity <= SumBalances(sel.baseCoins)) =>
        /\ PaysExactly
        /\ IsMinimalAscendingPrefix(Touched(sel.res.txb), sel.baseCoins, sel.quantity)

\* C4 amended: for a non-empty list of owned units of a non-gas asset and a target
\* not greater than the sum of their balances, the payment unit's balance equals
\* the target; when one unit covers the target on its own, the target is split
\* from the first such unit of the list and nothing is merged; otherwise the units
\* merged are the minimal prefix, in ascending balance order, whose sum first
\* reaches the target, merged into its smallest unit.
C4_SelectorCorrect ==
    (sel.called /\ ~IsGasAsset(sel.asset) /\ sel.baseCoins # <<>>
        /\ sel.quantity <= SumBalances(sel.baseCoins)) =>
        /\ PaysExactly
        /\ IF \E i \in 1..Len(sel.baseCoins) : sel.baseCoins[i].balance >= sel.quantity
           THEN LET first == CHOOSE i \in 1..Len(sel.baseCoins) :
                               /\ sel.baseCoins[i].balance >= sel.quantity
                               /\ \A j \in 1..(i - 1) :
                                     sel.baseCoins[j].balance < sel.quantity
                IN  sel.res.txb = <<SplitCoins(sel.baseCoins[first].coinObjectId,
                                               sel.quantity)>>
           ELSE /\ IsMinimalAscendingPrefix(Touched(sel.res.txb), sel.baseCoins,
                                            sel.quantity)
                /\ Len(sel.res.txb) = 2
                /\ sel.res.txb[1].kind = "MergeCoins"
                /\ sel.res.txb[2] = SplitCoins(sel.res.txb[1].coin, sel.quantity)
                /\ \A j \in 1..Len(sel.res.txb[1].sources) :
                      sel.baseCoins[sel.res.txb[1].coin].balance
                          <= sel.baseCoins[sel.res.txb[1].sources[j]].balance
                /\ Ascending([j \in 1..Len(sel.res.txb[1].sources) |->
                                 sel.baseCoins[sel.res.txb[1].sources[j]]])

\* A call in which no unit covers the target and a proper prefix of two or more
\* units is merged.
C4_Witness ==
    /\ sel.called
    /\ ~IsGasAsset(sel.asset)
    /\ sel.res.outcome = "ok"
    /\ sel.res.path = "accumulate"
    /\ Len(sel.res.merged) >= 2
    /\ Len(sel.res.merged) < Len(sel.baseCoins)

\* The owned units of Scenario C, in any order, and its target.
ScenarioC ==
    /\ ~IsGasAsset(sel.asset)
    /\ Len(sel.baseCoins) = 3
    /\ {sel.baseCoins[i].balance : i \in 1..3} = {30, 45, 80}
    /\ sel.quantity = 70

\* The coin of ScenarioC that has balance b.
CoinOf(b) == CHOOSE i \in 1..3 : sel.baseCoins[i].balance = b

\* C5 as stated: with units [30, 45, 80] and target 70 the selector merges the
\* units 30 and 45 and splits 70 from the merged 75, leaving 5; 80 is untouched.
C5_ScenarioCMerges ==
    (sel.called /\ ScenarioC) =>
        /\ sel.res.txb = <<MergeCoins(CoinOf(30), <<CoinOf(45)>>), SplitCoins(CoinOf(30), 70)>>
        /\ PaysExactly
        /\ SelLedger.bal[CoinOf(30)] = 5
        /\ SelLedger.bal[CoinOf(80)] = 80

\* C5 amended: with units [30, 45, 80] and target 70 the unit of balance 80 covers
\* the target on its own: the selector splits 70 from it, leaving 10, merges
\* nothing and leaves the units 30 and 45 untouched.
C5_ScenarioCSplitsLargest ==
    (sel.called /\ ScenarioC) =>
        /\ sel.res.txb = <<SplitCoins(CoinOf(80), 70)>>
        /\ PaysExactly
        /\ SelLedger.bal[CoinOf(80)] = 10
        /\ SelLedger.bal[CoinOf(30)] = 30
        /\ SelLedger.bal[CoinOf(45)] = 45

C5_Witness == sel.called /\ ScenarioC /\ sel.baseCoins[1].balance = 30
                 /\ sel.baseCoins[2].balance = 45

\* The selector failed with the insufficient-balance error carrying the requested
\* amount and the sum of all owned balances.
FailsInsufficient ==
    /\ sel.res.outcome = "throw"
    /\ sel.res.error = [kind |-> "InsufficientBalance", needed |-> sel.quantity,
                        found |-> SumBalances(sel.baseCoins)]

AtWait == pc \in {"splitTimer", "timer", "timer2"}

\* C1 as stated: whenever the loop waits, the delay it waits lies between the base
\* delay it was started with and the maximum delay.
C1_DelayWithinBounds == AtWait => (baseDelay <= delay /\ delay <= maxDelay)

\* C1: when the loop was started with a base delay that does not exceed the maximum
\* delay, the delay it waits lies between the base delay and the maximum delay.
C1_DelayWithinBoundsIfOrdered ==
    (baseDelay <= maxDelay /\ AtWait) => (baseDelay <= delay /\ delay <= maxDelay)

\* The delay was multiplied after failed submissions, cut to the maximum, and the
\* loop is about to wait it.
C1_Witness ==
    /\ pc = "timer2"
    /\ baseDelay < maxDelay
    /\ delay = maxDelay
    /\ delay # baseDelay * 10

\* C2: at most one submission is in flight, and none is when the loop polls a data
\* source, evaluates a strategy, builds an order's swap or starts a submission.
C2_OneSubmissionAtATime ==
    /\ TotalInFlight <= 1
    /\ pc \in {"poll", "evaluate", "order", "execute"} => TotalInFlight = 0

\* C7 as stated: in a round in which a data source yielded no data, no transaction
\* was submitted.
C7_VoidRoundSubmitsNothing == round.voidAt # 0 => round.submitted = {}

\* C7: in a round in which a data source yielded no data, no transaction is submitted
\* for that source nor for any source after it: the round ends there, and the only
\* submissions of the round are those for the sources polled before it.
C7_VoidRoundSubmitsNothingMore ==
    round.voidAt # 0 =>
        /\ \A i \in round.submitted : i < round.voidAt
        /\ pc \in {"head", "ended"}
        /\ inFlight.trade = 0

\* The second source yielded no data after a transaction was submitted for the first.
C7_Witness == round.voidAt = 2 /\ round.submitted = {1} /\ pc = "head"

\* C8: the loop does not end before its duration has elapsed, neither by returning
\* nor with the error of a data source that fails or of a swap that cannot be built.
C8_RunsForItsDuration ==
    (pc = "ended" /\ exitCause \in {"returned", "getData", "createSwapTransaction"})
        => now >= duration

(***************************************************************************)
(* The strategy: claims C11, C12, C20 (specification SpecArb)              *)
(***************************************************************************)
\* Hop i of the chain has no cached rate: its pool was never observed.
MissingRate(i) == latestRate[poolChain[i].poolUuid] = Undef

\* C11: when, after the cache update of an evaluate call, some hop of the chain has
\* no cached rate, the call returns no orders.
C11_PartialChainNeverTrades ==
    (ret.called /\ ret.accepted /\ \E i \in 1..Len(poolChain) : MissingRate(i))
        => ret.orders = <<>>

\* A hop declared with a2b FALSE has no cached rate: its rate is 1 / undefined, which
\* is not undefined, so the products were computed and logged; no order was returned.
C11_Witness ==
    /\ ret.called /\ ret.logged
    /\ \E i \in 1..Len(poolChain) : MissingRate(i) /\ ~poolChain[i].a2b
    /\ ret.orders = <<>>

\* C12: when the cached rate of some hop of the chain is 0 or undefined, the call
\* returns no orders.
C12_ZeroOrMissingRateNeverTrades ==
    (ret.called /\ ret.accepted
        /\ \E i \in 1..Len(poolChain) :
              MissingRate(i) \/ latestRate[poolChain[i].poolUuid] = Num(0, 1))
        => ret.orders = <<>>

(***************************************************************************)
(* The control loop: what a submission holds (specification Spec)          *)
(***************************************************************************)
\* A transaction block is being submitted for the current strategy evaluation.
Submitting == pc = "awaitExecute"

\* The positions of the swaps (the trade calls) in the block.
Swaps == {j \in 1..Len(txb) : txb[j].cmd.kind = "MoveCall"}

C14_AllOrdersInOneSubmission ==
    Submitting =>
        \A k \in 1..Len(batch.orders) :
            batch.orders[k].fate = "built" => \E j \in 1..Len(txb) : txb[j].order = k


(***************************************************************************)
(* The control loop: the delay controller (specification Spec)             *)
(***************************************************************************)
\* The submission of the current strategy evaluation settled and it failed: the
\* ledger's response carries errors, or the submission call threw.
SubmissionFailed == pc = "executed" /\ batch.outcome \in {"errors", "threw"}

\* C15: after every failed submission the loop's delay becomes
\* min(max(10 x delay, baseDelay), maxDelay).
C15_EveryFailureBacksOff ==
    [][SubmissionFailed /\ pc' # "executed" /\ pc' # "ended"
         => delay' = ClampDelay(delay * 10, baseDelay, maxDelay)]_vars


\* C16: a delay equal to maxDelay does not persist (baseDelay < maxDelay): while the
\* loop runs, the delay becomes lower than maxDelay again unless a further submission
\* fails.
C16_MaxDelayDoesNotPersist ==
    (delay = maxDelay /\ baseDelay < maxDelay)
        ~> (delay < maxDelay \/ SubmissionFailed \/ pc = "ended")


(***************************************************************************)
(* The control loop: the imbalance gate (specification Spec)               *)
(***************************************************************************)
\* An order of the current evaluation is for the RAMM pool and the imbalance ratio of
\* its input asset exceeds the threshold.
OverThreshold ==
    \E k \in 1..Len(batch.orders) :
        Pools[batch.orders[k].pool].kind = "RAMM" /\ batch.orders[k].ratio > ImbalanceThreshold

\* A step of the loop itself: its position changes, and not because the rejection of
\* a request that was not awaited ends the process.
LoopStep == pc' # pc /\ exitCause' # "unhandled rejection"

\* C17: when an order for the RAMM pool has an input asset whose imbalance ratio exceeds
\* the threshold, the orders end there with an empty block, the loop's next step
\* submits nothing for that evaluation, the step after it leaves the delay
\* unmultiplied (only clamped), and the loop goes on with the next strategy or data
\* source (unless the rejection of a request that was not awaited ends the process).
C17_GatedBatchIsNoFailure ==
    [][OverThreshold /\ exitCause # "unhandled rejection" =>
          /\ batch.orders[Len(batch.orders)].fate = "gated"
          /\ txb = <<>>
          /\ pc \in {"execute", "executed"}
          /\ pc = "execute" /\ LoopStep =>
                pc' = "executed" /\ batch'.outcome = "not submitted"
          /\ pc = "executed" /\ LoopStep =>
                /\ batch.outcome = "not submitted"
                /\ delay' = ClampDelay(delay, baseDelay, maxDelay)
                /\ pc' \in {"evaluate", "poll", "timer2"}]_vars

\* The loop went past an evaluation cut short by the gate after a swap had been built.
C17_Witness ==
    /\ pc = "executed"
    /\ OverThreshold
    /\ Len(batch.orders) = 2
    /\ batch.orders[1].fate = "built"
    /\ batch.outcome = "not submitted"


(***************************************************************************)
(* The control loop: balances (specification Spec)                         *)
(***************************************************************************)
\* The orders of the current evaluation for which the payment selector failed with
\* insufficient balance.
Underfunded ==
    {k \in 1..Len(batch.orders) : batch.orders[k].error = "InsufficientBalance"}

\* C18 as stated: the selector's insufficient balance reaches the loop as a failure of
\* createSwapTransaction.
C18_InsufficientBalanceSurfaced ==
    \A k \in Underfunded : batch.orders[k].fate = "threw"

\* C18: the selector's insufficient balance is caught and logged inside
\* RAMMPool.createSwapTransaction, which returns the block unchanged: the loop sees no
\* failure and is not ended by it, and its block holds no command for that order.
C18_InsufficientBalanceOnlyLogged ==
    \A k \in Underfunded :
        /\ batch.orders[k].fate = "not built"
        /\ \A j \in 1..Len(txb) : txb[j].order # k
        /\ k = Len(batch.orders) => exitCause # "createSwapTransaction"

\* A block is being submitted that holds the swap of one order while the selector had
\* failed for another order of the evaluation.
C18_Witness ==
    Submitting /\ Underfunded # {} /\ \E j \in 1..Len(txb) : txb[j].order \notin Underfunded


\* C19: every swap in a block being submitted was built for an order whose amountIn
\* was checked against the queried spendable balance of its input asset, and was not
\* greater.
C19_NoSwapWithoutBalanceCheck ==
    Submitting =>
        \A j \in Swaps :
            /\ batch.orders[txb[j].order].balance >= 0
            /\ batch.orders[txb[j].order].amountIn <= batch.orders[txb[j].order].balance


(***************************************************************************)
(* The strategy and the bot's tables (specification SpecBot)               *)
(***************************************************************************)
\* The venues the strategy declares, and those of the chain it was constructed with.
Subscribed == {subscribes_to[i] : i \in 1..Len(subscribes_to)}
Declared == {declaredChain[i].poolUuid : i \in 1..Len(declaredChain)}

\* The strategy is stored under uri u.
Registered(u) ==
    u \in DOMAIN strategies /\ \E k \in 1..Len(strategies[u]) : strategies[u][k] = StrategyUri

\* Every order of the last evaluation names a venue the strategy declares.
OrdersDeclared ==
    ret.called => \A k \in 1..Len(ret.orders) : ret.orders[k].poolUuid \in Subscribed

BuiltOrders == {k \in 1..Len(batch.orders) : batch.orders[k].fate = "built"}
BatchGated == \E k \in 1..Len(batch.orders) : batch.orders[k].fate = "gated"

\* C21: when the loop is done with a strategy evaluation that the gate did not cut
\* short, the swap of every order for which one was built was in the one block that
\* was submitted, exactly once; and an evaluation starts with no order and no command
\* left from an earlier one.
C21_EachOrderConsumedOnce ==
    /\ pc = "executed" /\ ~BatchGated =>
          \A k \in BuiltOrders :
              /\ batch.outcome # "not submitted"
              /\ Cardinality({j \in Swaps : txb[j].order = k}) = 1
    /\ pc = "evaluate" => txb = <<>> /\ batch.orders = <<>>


(***************************************************************************)
(* The identity of a pool (specification SpecPool)                         *)
(***************************************************************************)
\* The unordered pair of the asset types of a pool.
AssetPair(pool) == {pool.coinA.type, pool.coinB.type}

\* The two pools have equal identities exactly when they have the same address and
\* the same unordered pair of assets; a pool's uri is its uuid.
IdentityByAddressAndPair ==
    made.constructed =>
        /\ (made.pool[1].uuid = made.pool[2].uuid) <=>
              /\ made.pool[1].address = made.pool[2].address
              /\ AssetPair(made.pool[1]) = AssetPair(made.pool[2])
        /\ \A i \in 1..2 : made.pool[i].uri = made.pool[i].uuid

\* C22: the identity of a pool is a function of its address and the unordered pair of
\* its asset types (equal for the same address and pair in either order, different for
\* the same address and another pair), and it never changes after construction.
C22_IdentityOfPool ==
    [][/\ IdentityByAddressAndPair'
       /\ made.constructed =>
             \A i \in 1..2 : /\ made'.pool[i].uuid = made.pool[i].uuid
                             /\ made'.pool[i].uri = made.pool[i].uri]_vars

\* Two pools with the same address and the same two distinct assets, declared in
\* opposite orders, have the same identity, and one of them has given data.
C22_Witness ==
    /\ made.constructed
    /\ made.data.type = "Price"
    /\ made.pool[1].address = made.pool[2].address
    /\ made.pool[1].coinA.type = made.pool[2].coinB.type
    /\ made.pool[1].coinB.type = made.pool[2].coinA.type
    /\ made.pool[1].coinA.type # made.pool[1].coinB.type
    /\ made.pool[1].uuid = made.pool[2].uuid


(***************************************************************************)
(* Two strategies with lower limits L1 <= L2 (specification SpecTwin)      *)
(***************************************************************************)
\* C23: with the same observations, every evaluate call at which the strategy with the
\* higher lower limit returns orders is a call at which the strategy with the lower
\* one returns orders too.
C23_ThresholdMonotone ==
    (twin.ret.called /\ twin.ret.orders # <<>>) => (ret.called /\ ret.orders # <<>>)

\* Both strategies return orders at a call, their limits differ, and their chains
\* have come to differ because only one of them had taken the reverse branch.
C23_Witness ==
    /\ twin.ret.called
    /\ twin.ret.orders # <<>>
    /\ ret.orders # <<>>
    /\ twin.lowerLimit # lowerLimit
    /\ twin.poolChain # poolChain


(***************************************************************************)
(* The control loop: termination (specification SpecLive)                  *)
(***************************************************************************)
\* C24: the loop terminates; an iteration begins only while the time since the start
\* is below the duration; and the loop returns only from the test at the head of an
\* iteration, so that the duration never cuts short an iteration that has begun.
C24_LoopTerminates ==
    /\ <>(pc = "ended")
    /\ [][(pc = "head" /\ pc' = "checkSplitTokens") => now < duration]_vars
    /\ [][(exitCause = "none" /\ exitCause' = "returned") =>
             (pc = "head" /\ now >= duration)]_vars

\* The loop has returned after an iteration that polled every data source.
C24_Witness ==
    /\ pc = "ended"
    /\ exitCause = "returned"
    /\ round.voidAt = 0
    /\ now >= duration
    /\ duration > 0


(***************************************************************************)
(* addStrategy: unknown sources (specification SpecBot)                    *)
(***************************************************************************)
\* How often the strategy is stored in a table of strategies under uri u.
TimesStored(strats, u) ==
    IF u \in DOMAIN strats
    THEN Cardinality({k \in 1..Len(strats[u]) : strats[u][k] = StrategyUri})
    ELSE 0

\* How often uri u occurs in subscribes_to().
TimesSubscribed(u) == Cardinality({i \in 1..Len(subscribes_to) : subscribes_to[i] = u})

\* C25: a call of addStrategy throws exactly when some source the strategy subscribes
\* to is not a data source of the bot; a call that does not throw stores the strategy
\* once more under every source it subscribes to, and changes no other list.
C25_AddStrategyChecksSources ==
    [][addStrategy =>
          /\ botCall'.threw <=> ~(Subscribed \subseteq dataSources)
          /\ ~botCall'.threw =>
                /\ DOMAIN strategies' = DOMAIN strategies
                /\ \A u \in DOMAIN strategies :
                      TimesStored(strategies', u) = TimesStored(strategies, u) + TimesSubscribed(u)
                /\ \A u \in Subscribed : Registered(u)']_vars

\* addStrategy returned for a strategy of two venues, after a call of it had thrown at
\* the second venue: the strategy is stored under both.
C25_Witness ==
    /\ botCall = [op |-> "addStrategy", threw |-> FALSE]
    /\ Cardinality(Subscribed) = 2
    /\ \A u \in Subscribed : Registered(u)
    /\ \E u \in Subscribed : TimesStored(strategies, u) = 2
    /\ \E u \in Subscribed : TimesStored(strategies, u) = 1


(***************************************************************************)
(* The second loop: a poll without data (specification SpecLoop2)          *)
(***************************************************************************)
\* C26: after a poll has given no data, no data source is polled again before the loop
\* has waited its delay.
C26_DelayAfterNoData == loop2.sinceVoid # "polled"


(***************************************************************************)
(* The imbalance snapshot (specification Spec)                             *)
(***************************************************************************)
\* The three conditions of the snapshot, at the time the loop looks at it.
SnapshotUnknown == ~imbalance.defined
SnapshotStale == imbalance.defined /\ now - lastImbalanceCheckTime >= ImbalanceValidity
SnapshotFresh == imbalance.defined /\ now - lastImbalanceCheckTime < ImbalanceValidity

\* The loop visits an order for a RAMM pool and gets as far as the gate.
RAMMOrderStep ==
    /\ pc = "order"
    /\ Len(batch'.orders) = Len(batch.orders) + 1
    /\ Pools[batch'.orders[Len(batch'.orders)].pool].kind = "RAMM"

\* C27: an order for a RAMM pool leaves a Fresh snapshot and its time as they are; with
\* no snapshot or a Stale one it stores a snapshot whose time is the clock after the
\* query, so that it is Fresh; and no other step of the loop touches the snapshot.
C27_SnapshotQueriedWhenUnknownOrStale ==
    [][/\ RAMMOrderStep /\ SnapshotFresh => UNCHANGED <<imbalance, lastImbalanceCheckTime>>
       /\ RAMMOrderStep /\ (SnapshotUnknown \/ SnapshotStale) =>
             /\ imbalance'.defined
             /\ lastImbalanceCheckTime' = now'
             /\ SnapshotFresh'
       /\ ~RAMMOrderStep => UNCHANGED <<imbalance, lastImbalanceCheckTime>>]_vars

\* Two orders for the RAMM pool in one evaluation, the snapshot taken at time 0 and the
\* clock now a tick later: the second order met a Fresh snapshot and reused it.
C27_Witness ==
    /\ imbalance.defined
    /\ lastImbalanceCheckTime = 0
    /\ now = MaxTime
    /\ Len(batch.orders) = 2
    /\ \A k \in 1..2 : Pools[batch.orders[k].pool].kind = "RAMM"


(***************************************************************************)
(* Arbitrage: the amounts of the orders (specification SpecArb)            *)
(***************************************************************************)
\* decimals of the asset with a given type
DecimalsOf(type) == (CHOOSE a \in {Assets[i] : i \in 1..Len(Assets)} : a.type = type).decimals

\* C28: every order returned by evaluate has as amountIn the default amount multiplied
\* by 10 to the decimals of the order's input asset, whatever the cached rates are.
C28_AmountInIsScaledDefault ==
    ret.called =>
        \A k \in 1..Len(ret.orders) :
            ret.orders[k].amountIn =
                Mul(defaultAmount, Num(Pow10(DecimalsOf(ret.orders[k].assetIn)), 1))


(***************************************************************************)
(* Arbitrage: both products over the limit (specification SpecArb)         *)
(***************************************************************************)
\* C29: when the forward product and the reverse product both exceed lowerLimit in one
\* evaluate call, the call takes the forward branch: it returns one order per hop, all
\* with the declared directions, and none with an inverted direction.
C29_ForwardTakesPriority ==
    (ret.called /\ ret.logged /\ Gt(ret.arbitrage, lowerLimit) /\ Gt(ret.reverse, lowerLimit)) =>
        /\ ret.branch = "forward"
        /\ FullSet(ret.orders, FALSE)
        /\ ~(\E k \in 1..Len(ret.orders) : \E i \in 1..NHops :
                /\ ret.orders[k].poolUuid = declaredChain[i].poolUuid
                /\ ret.orders[k].a2b # declaredChain[i].a2b)

\* Both products of a chain of two hops are finite and over the limit, and orders were
\* returned.
C29_Witness ==
    /\ ret.called /\ ret.logged
    /\ ret.arbitrage.k = "num" /\ ret.reverse.k = "num"
    /\ Gt(ret.arbitrage, lowerLimit)
    /\ Gt(ret.reverse, lowerLimit)
    /\ NHops = 2
    /\ Len(ret.orders) = 2


(***************************************************************************)
(* Arbitrage: what an observation does to the caches (specification SpecArb) *)
(***************************************************************************)
\* C30: an evaluate call whose observation is not a price, or whose source is not a
\* venue of the chain, returns no orders and leaves latestRate and latestFee as they
\* are; any other call stores the observation's price and fee under its source and
\* leaves every other entry of latestRate and latestFee as it is.
C30_OnlyOwnCacheEntries ==
    [][ret'.called =>
          LET data == ret'.data IN
          IF data.type # "Price" \/ data.source_uri \notin Declared
          THEN /\ ret'.orders = <<>>
               /\ UNCHANGED <<latestRate, latestFee>>
          ELSE /\ DOMAIN latestRate' = DOMAIN latestRate
               /\ DOMAIN latestFee' = DOMAIN latestFee
               /\ \A u \in DOMAIN latestRate \ {data.source_uri} :
                     latestRate'[u] = latestRate[u]
               /\ \A u \in DOMAIN latestFee \ {data.source_uri} :
                     latestFee'[u] = latestFee[u]
               /\ latestRate'[data.source_uri] = data.price
               /\ latestFee'[data.source_uri] = data.fee]_vars

\* An observation of a pool outside the chain was ignored while both hops of a chain
\* of two had a cached rate, the two rates being different.
C30_Witness ==
    /\ ret.called
    /\ ~ret.accepted
    /\ ret.data.type = "Price"
    /\ NHops = 2
    /\ latestRate[PoolUuid(1)].k = "num"
    /\ latestRate[PoolUuid(2)].k = "num"
    /\ latestRate[PoolUuid(1)] # latestRate[PoolUuid(2)]


(***************************************************************************)
(* Payment selector: a unit that covers the target (specification SpecSel) *)
(***************************************************************************)
\* The owned units whose balance covers the target on its own.
CoveringUnits ==
    {sel.baseCoins[i].coinObjectId : i \in {j \in 1..Len(sel.baseCoins) :
                                              sel.baseCoins[j].balance >= sel.quantity}}

C32_RoutingTablesConsistent ==
    /\ pools \subseteq dataSources
    /\ dataSources \subseteq DOMAIN strategies
    /\ pools \subseteq poolKeypairs
    /\ \A u \in DOMAIN strategies : Registered(u) => u \in Subscribed

\* A call of addPool has thrown, and the strategy of a chain of two venues is stored
\* under its first venue only, a call of addStrategy having thrown at the second.
C32_Witness ==
    /\ botCall = [op |-> "addPool", threw |-> TRUE]
    /\ PoolUuid(1) \in pools
    /\ Len(subscribes_to) = 2
    /\ Registered(PoolUuid(1))
    /\ PoolUuid(2) \notin dataSources


(***************************************************************************)
(* Arbitrage: the keys of the caches (specification SpecArb)               *)
(***************************************************************************)
\* Object.keys(cache): the identities under which a value has been written.
Keys(cache) == {u \in DOMAIN cache : cache[u] # Undef}

\* C33: after any sequence of evaluate calls latestRate and latestFee have the same
\* keys, all of them venues of the chain; and no call removes a key of either: an
\* entry changes only by the observation of its own source being stored in it.
C33_CacheKeysBoundedAndKept ==
    /\ [](/\ Keys(latestRate) = Keys(latestFee)
          /\ Keys(latestRate) \subseteq Declared
          /\ Cardinality(Keys(latestRate)) <= NHops)
    /\ [][/\ Keys(latestRate) \subseteq Keys(latestRate')
          /\ Keys(latestFee) \subseteq Keys(latestFee')
          /\ \A u \in DOMAIN latestRate :
                (latestRate'[u] # latestRate[u] \/ latestFee'[u] # latestFee[u]) =>
                    /\ ret'.accepted
                    /\ ret'.data.source_uri = u
                    /\ latestRate'[u] = ret'.data.price
                    /\ latestFee'[u] = ret'.data.fee]_vars

\* Both venues of a chain of two have an entry, and the last call stored the
\* observation of the second over an entry of other values.
C33_Witness ==
    /\ NHops = 2
    /\ Keys(latestRate) = Declared
    /\ ret.called /\ ret.accepted
    /\ ret.data.source_uri = PoolUuid(2)
    /\ latestRate[PoolUuid(2)] = ret.data.price
    /\ latestRate[PoolUuid(1)] # latestRate[PoolUuid(2)]


(***************************************************************************)
(* Arbitrage: the chain after evaluate (specification SpecArb)             *)
(***************************************************************************)
\* C34: after every evaluate call the strategy's chain is the chain it was constructed
\* with, hop for hop and direction for direction, and subscribes_to() returns the
\* venues of that chain in the order declared.
C34_ChainAsConstructed ==
    /\ poolChain = declaredChain
    /\ subscribes_to = [i \in 1..Len(declaredChain) |-> declaredChain[i].poolUuid]


(***************************************************************************)
(* The imbalance gate with two RAMM pools (specification SpecGate)         *)
(***************************************************************************)
\* C35: the snapshot by which an order for a RAMM pool is blocked or allowed was
\* queried from that pool.
C35_SnapshotFromSameVenue ==
    gate.decision # "none" => gate.imbalance.pool = gate.order.poolUuid


(***************************************************************************)
(* addStrategy: a call that throws (specification SpecBot)                 *)
(***************************************************************************)
\* C36: a call of addStrategy that throws leaves the table of strategies as it was.
C36_FailedAddStrategyChangesNothing ==
    [][(addStrategy /\ botCall'.threw) => UNCHANGED strategies]_vars


(***************************************************************************)
(* addPool and addDataSource: an identity added twice (specification SpecBot) *)
(***************************************************************************)
\* The four routing tables are left as they were.
TablesUnchanged == UNCHANGED <<pools, poolKeypairs, dataSources, strategies>>

====
